---- MODULE Spec2Model ----
(***************************************************************************)
(* A model of the grading engine of plags-scripts (judge_util.py) and of   *)
(* the judge-setting generation of its build scripts.                      *)
(*                                                                         *)
(* Spec      : one test module is declared (teststage, check_method,       *)
(*             test_method) and then graded by unittest_main.              *)
(* BuildSpec : the stages of one exercise are loaded by a build script and *)
(*             turned into a judge setting whose transition table is then  *)
(*             walked.                                                     *)
(* SessionSpec : several runs of unittest_main in one interpreter session. *)
(* LibSpec   : the tag mapping, the notebook extraction and the output     *)
(*             wrappers of judge_util.py.                                  *)
(* MainSpec  : one run of a build script from its command line.            *)
(* CaseSpec  : the bodies of the cases calling the setters of tags, rules  *)
(*             and messages.                                               *)
(* RawCheckSpec : the raw-check stage run on a submitted notebook.         *)
(***************************************************************************)
EXTENDS Integers, Sequences, FiniteSets, TLC

\* ------------------------------------------------------------------ bounds

\* Cases declared in the graded module, over all its stages.
MaxCases == 2

\* The stage classes of the graded module, numbered in the order in which the
\* loader visits them (the sorted order of their names in the module).
Stages == {1, 2}
\* The case names; m < n means that test_m sorts before test_n.
CaseNames == {1, 2}

\* ------------------------------------------------------------- small helpers

Range(f) == {f[i] : i \in DOMAIN f}

RECURSIVE SumLens(_, _)
SumLens(f, S) ==
    IF S = {} THEN 0
    ELSE LET x == CHOOSE y \in S : TRUE IN Len(f[x]) + SumLens(f, S \ {x})

\* The strictly increasing sequence of the elements of a finite set of integers.
RECURSIVE SortedSeq(_)
SortedSeq(S) ==
    IF S = {} THEN <<>>
    ELSE LET m == CHOOSE x \in S : \A y \in S : x <= y IN <<m>> \o SortedSeq(S \ {m})

RECURSIVE Concat(_, _)
Concat(f, n) == IF n = 0 THEN <<>> ELSE Concat(f, n - 1) \o f[n]

\* ------------------------------------------------------------ program values

\* The kinds of stage that teststage can produce, with the mode the stage module
\* may set afterwards (rawcheck.py: RawCheck.mode = 'separate').
StageKinds ==
    { [style |-> "FORMATTED", mode |-> "append",   exec_answer |-> FALSE],
      [style |-> "FORMATTED", mode |-> "separate", exec_answer |-> FALSE],
      [style |-> "AS_IS",     mode |-> "separate", exec_answer |-> FALSE],
      [style |-> "AS_IS",     mode |-> "separate", exec_answer |-> TRUE] }

NoStage == [style |-> "none", mode |-> "none", exec_answer |-> FALSE]

\* The name under which unittest reports a failing setUpClass (_ErrorHolder).
ErrorHolder == 0

VARIABLES
    pc,               \* "declare", "next", "body", "done", "crashed"
    kind,             \* stage -> the stage class made by teststage, or NoStage
    decl,             \* stage -> its cases in declaration order: [name, role, fail_tag]
    queue,            \* the loaded tests that the suite has not visited yet
    previousClass,    \* result._previousTestClass (0: None)
    classSetupFailed, \* stage -> cls._classSetupFailed
    current,          \* the test whose body is running
    run_tests,        \* JudgeTestResult.run_tests
    successes,        \* JudgeTestResult.successes
    failures,         \* the tests of TestResult.failures
    errors,           \* the tests (and error holders) of TestResult.errors
    skipped,          \* the tests of TestResult.skipped
    ok_tags,          \* test -> the ok_tags the instance holds itself; at
                      \* ClassLevel: JudgeTestCaseBase.ok_tags
    fail_tags,        \* test -> the fail_tags the instance holds itself; at
                      \* ClassLevel: JudgeTestCaseBase.fail_tags
    message_log,      \* _message_log: test -> message
    derivedFile,      \* whether the submission.py written by exec_answer_cell exists
    answer,           \* stage -> whether cls.answer holds the imported module
    tearDowns,        \* stage -> how often its tearDownClass has run in this run
    setUps,           \* stage -> how far its setUpClass got: "no", "failed", "ok"
    table,            \* the rows that unittest_main reports
    calls,            \* the calls of unittest_main the process has still to make
    error_tag_rules,  \* test -> the error_tag_rules the instance holds itself;
                      \* at ClassLevel: JudgeTestCaseBase.error_tag_rules
    ownRules,         \* the tests whose instance has an error_tag_rules attribute
    exc_info,         \* JudgeTestResult.exc_info: test -> class of the exception
    ownTags,          \* the (attribute, test) pairs of the instances that hold an
                      \* ok_tags or fail_tags attribute themselves
    raised,           \* while a body runs: what its last call of set_ok_tag,
                      \* set_fail_tag or set_error_tag raised, if it raised
    output,           \* what unittest_main returns (HTML) or prints (JSON)
    bpc,              \* the build: "off", "load", "failed", "loaded", "generated", "walk", "end"
    buildPath,        \* "formatted" (build_formatted.py) or "as_is" (build_as_is.py)
    test_modules,     \* the stages interpreted so far: [name, score, unsuccessful_score]
    setting,          \* the 'evaluation' block of the generated judge setting
    state,            \* the state of the judge runtime that walks the setting
    path,             \* the (state, outcome) pairs of the walk
    released,         \* the scores released on the walk
    lpc,              \* a use of the library: "off", "tags", "registry", "notebook"
    tags_given,       \* the tags handed to EvaluationTagMapping, in order
    registry,         \* the EvaluationTagMapping made: its tuple and its name map
    results,          \* the lookups made on the registry, with what they gave
    submission,       \* cls.submission of a separate-mode stage: the cells or the text
    extracted,        \* the extractions made from the submission, with what they gave
    wrapped,          \* the wrapper made of a function: "none", "print_return",
                      \* "stdout_return"
    out,              \* the text held by the StringIO of the wrapper
    returned,         \* the calls of the wrapper: what the function printed in the
                      \* call and what the call returned
    mpc,              \* a build run (main): "off", "load", "load_tests", "cleanup",
                      \* "forms", "configuration", "zip", "end", "aborted"
    options,          \* the build script and its command-line options
    exercises,        \* the masters the build run is given
    index,            \* how many exercises the current step of main has handled
    written           \* the outputs the build run has written so far

runVars == <<queue, previousClass, classSetupFailed, current, run_tests, successes,
             failures, errors, skipped, ok_tags, fail_tags, message_log,
             derivedFile, answer, tearDowns, setUps, table, calls, error_tag_rules,
             ownRules, exc_info, output, ownTags, raised>>

\* The tag rules and what a finished run gave out.
tagVars == <<error_tag_rules, ownRules, exc_info>>

\* The instance attributes ok_tags and fail_tags, and the last failed setter.
callVars == <<ownTags, raised>>

buildVars == <<bpc, buildPath, test_modules, setting, state, path, released>>

\* The wrapper print_return or stdout_return makes, and its calls.
wrapVars == <<wrapped, out, returned>>

libVars == <<lpc, tags_given, registry, results, submission, extracted, wrapVars>>

mainVars == <<mpc, options, exercises, index, written>>

vars == <<pc, kind, decl, runVars, buildVars, libVars, mainVars>>

Tests == Stages \X CaseNames
NoTest == <<0, 0>>

\* --------------------------------------------------------------- declaration

\* No registry is made and no submission is looked at.
NoRegistry == [tuple |-> <<>>, map |-> <<>>]
LibOff ==
    /\ lpc = "off"
    /\ tags_given = <<>>
    /\ registry = NoRegistry
    /\ results = <<>>
    /\ submission = <<>>
    /\ extracted = <<>>
    /\ wrapped = "none"
    /\ out = <<>>
    /\ returned = <<>>

\* No build run is going on.
MainOff ==
    /\ mpc = "off"
    /\ options = [script |-> "none", auto_eval |-> FALSE, configuration |-> "None",
                  forms |-> FALSE]
    /\ exercises = <<>>
    /\ index = 0
    /\ written = {}

\* The place of the class attributes of JudgeTestCaseBase: ok_tags = [],
\* fail_tags = [], error_tag_rules = {}.
ClassLevel == <<0, 0>>

\* The last setter call of the body returned, or there was none.
NoRaise == [fn |-> "", tag |-> [type |-> "", value |-> ""], exception |-> "", error |-> ""]

\* No instance has rules of its own and the class attribute is the empty dict.
NoRules ==
    /\ error_tag_rules = [t \in Tests \cup {ClassLevel} |-> <<>>]
    /\ ownRules = {}
    /\ exc_info = <<>>
    /\ ownTags = {}
    /\ raised = NoRaise

\* Before unittest_main has ended it has returned and printed nothing.
NoOutput == [on_ipynb |-> FALSE, json |-> <<>>, summary |-> <<>>, legend |-> {},
             details |-> <<>>]

NoSetting == [initial_state |-> "", states |-> {}, transition_function |-> <<>>]

BuildOff ==
    /\ bpc = "off"
    /\ buildPath = "none"
    /\ test_modules = <<>>
    /\ setting = NoSetting
    /\ state = ""
    /\ path = <<>>
    /\ released = <<>>

Init ==
    /\ BuildOff
    /\ pc = "declare"
    /\ kind = [s \in Stages |-> NoStage]
    /\ decl = [s \in Stages |-> <<>>]
    /\ queue = <<>>
    /\ previousClass = 0
    /\ classSetupFailed = [s \in Stages |-> FALSE]
    /\ current = NoTest
    /\ run_tests = <<>>
    /\ successes = {}
    /\ failures = {}
    /\ errors = {}
    /\ skipped = {}
    /\ ok_tags = [t \in Tests \cup {ClassLevel} |-> <<>>]
    /\ fail_tags = [t \in Tests \cup {ClassLevel} |-> <<>>]
    /\ message_log = <<>>
    /\ derivedFile = FALSE
    /\ answer = [s \in Stages |-> FALSE]
    /\ tearDowns = [s \in Stages |-> 0]
    /\ setUps = [s \in Stages |-> "no"]
    /\ table = <<>>
    /\ calls = 1
    /\ NoRules
    /\ output = NoOutput
    /\ LibOff
    /\ MainOff

\* teststage(...): a new stage class. exec_answer_cell asserts mode == 'separate',
\* which teststage gives only to an AS_IS stage, so exec_answer implies AS_IS.
teststage(s, k) ==
    /\ pc = "declare"
    /\ kind[s] = NoStage
    /\ IF s = 1 THEN TRUE ELSE kind[s - 1] # NoStage
    /\ kind' = [kind EXCEPT ![s] = k]
    /\ UNCHANGED <<pc, decl, runVars, buildVars, libVars, mainVars>>

DeclaredNames(s) == {decl[s][i].name : i \in DOMAIN decl[s]}

\* setattr(testcase_cls, 'test_' + name, wrapper_method): a new attribute goes to
\* the end of the class dictionary, an existing one is replaced where it is.
SetMethod(d, c) ==
    IF \E i \in DOMAIN d : d[i].name = c.name
    THEN [i \in DOMAIN d |-> IF d[i].name = c.name THEN c ELSE d[i]]
    ELSE Append(d, c)

\* @check_method(stage, fail_tag) applied to a function called n.
check_method(s, n, fail_tag) ==
    /\ pc = "declare"
    /\ kind[s] # NoStage
    /\ SumLens(decl, Stages) < MaxCases
    /\ decl' = [decl EXCEPT ![s] =
                  SetMethod(@, [name |-> n, role |-> "check", fail_tag |-> fail_tag])]
    /\ UNCHANGED <<pc, kind, runVars, buildVars, libVars, mainVars>>

\* @test_method(stage) applied to a function called n.
test_method(s, n) ==
    /\ pc = "declare"
    /\ kind[s] # NoStage
    /\ SumLens(decl, Stages) < MaxCases
    /\ decl' = [decl EXCEPT ![s] =
                  SetMethod(@, [name |-> n, role |-> "test", fail_tag |-> "IO"])]
    /\ UNCHANGED <<pc, kind, runVars, buildVars, libVars, mainVars>>

\* The case of stage s that is bound to test_n.
CaseOf(t) == CHOOSE c \in Range(decl[t[1]]) : c.name = t[2]

\* ------------------------------------------------------------ the grading run

\* A loader that keeps the order of the class dictionary (sortTestMethodsUsing
\* = None) instead of sorting.
getTestCaseNames_Unsorted(s) == [i \in DOMAIN decl[s] |-> decl[s][i].name]

\* TestLoader.getTestCaseNames: the test_* attributes of the class, sorted.
getTestCaseNames(s) == SortedSeq(DeclaredNames(s))

\* loadTestsFromModule: the tests of every stage class, class after class.
LoadedOf(s) == [i \in 1..Len(getTestCaseNames(s)) |-> <<s, getTestCaseNames(s)[i]>>]
loadTests == Concat([s \in Stages |-> LoadedOf(s)], Cardinality(Stages))

\* A unittest_main that does not rebind _message_log to an empty dict.
unittest_main_KeepsLog ==
    /\ pc \in {"declare", "done"}
    /\ calls > 0
    /\ calls' = calls - 1
    /\ pc' = "next"
    /\ queue' = loadTests
    /\ previousClass' = 0
    /\ current' = NoTest
    /\ run_tests' = <<>>
    /\ successes' = {}
    /\ failures' = {}
    /\ errors' = {}
    /\ skipped' = {}
    /\ exc_info' = <<>>
    /\ ok_tags' = [t \in Tests \cup {ClassLevel} |->
                      IF t = ClassLevel THEN ok_tags[t] ELSE <<>>]
    /\ fail_tags' = [t \in Tests \cup {ClassLevel} |->
                        IF t = ClassLevel THEN fail_tags[t] ELSE <<>>]
    /\ ownTags' = {}
    /\ raised' = NoRaise
    /\ ownRules' = {}
    /\ error_tag_rules' = [t \in Tests \cup {ClassLevel} |->
                              IF t = ClassLevel THEN error_tag_rules[t] ELSE <<>>]
    /\ tearDowns' = [s \in Stages |-> 0]
    /\ setUps' = [s \in Stages |-> "no"]
    /\ table' = <<>>
    /\ output' = NoOutput
    /\ UNCHANGED <<buildVars, libVars, mainVars, kind, decl, classSetupFailed, derivedFile, answer,
                   message_log>>

\* unittest_main, up to the start of the suite: the message log is cleared, a
\* fresh JudgeTestResult is made and the tests of the module are loaded, which
\* makes new instances of the cases. A process may call it again when the
\* run before has ended; classes, files and module globals are kept.
unittest_main ==
    /\ pc \in {"declare", "done"}
    /\ calls > 0
    /\ calls' = calls - 1
    /\ pc' = "next"
    /\ message_log' = <<>>
    /\ queue' = loadTests
    /\ previousClass' = 0
    /\ current' = NoTest
    /\ run_tests' = <<>>
    /\ successes' = {}
    /\ failures' = {}
    /\ errors' = {}
    /\ skipped' = {}
    /\ exc_info' = <<>>
    /\ ok_tags' = [t \in Tests \cup {ClassLevel} |->
                      IF t = ClassLevel THEN ok_tags[t] ELSE <<>>]
    /\ fail_tags' = [t \in Tests \cup {ClassLevel} |->
                        IF t = ClassLevel THEN fail_tags[t] ELSE <<>>]
    /\ ownTags' = {}
    /\ raised' = NoRaise
    /\ ownRules' = {}
    /\ error_tag_rules' = [t \in Tests \cup {ClassLevel} |->
                              IF t = ClassLevel THEN error_tag_rules[t] ELSE <<>>]
    /\ tearDowns' = [s \in Stages |-> 0]
    /\ setUps' = [s \in Stages |-> "no"]
    /\ table' = <<>>
    /\ output' = NoOutput
    /\ UNCHANGED <<buildVars, libVars, mainVars, kind, decl, classSetupFailed, derivedFile, answer>>

\* tearDownClass as exec_answer_cell installs it; any other stage keeps the
\* empty tearDownClass of unittest.TestCase.
tearDownClass(s) ==
    /\ derivedFile' = IF kind[s].exec_answer /\ kind[s].style = "AS_IS"
                        THEN FALSE ELSE derivedFile
    /\ answer' = IF kind[s].exec_answer THEN [answer EXCEPT ![s] = FALSE] ELSE answer
    /\ tearDowns' = [tearDowns EXCEPT ![s] = @ + 1]

\* TestSuite._tearDownPreviousClass: when the suite leaves a class (the next test
\* is of another class, or there is none), the class is torn down, unless its
\* setUpClass had failed.
tearDownPreviousClass ==
    /\ pc = "next"
    /\ previousClass # 0
    /\ IF queue = <<>> THEN TRUE ELSE Head(queue)[1] # previousClass
    /\ IF classSetupFailed[previousClass]
          THEN UNCHANGED <<derivedFile, answer, tearDowns>>
          ELSE tearDownClass(previousClass)
    /\ previousClass' = 0
    /\ UNCHANGED <<buildVars, libVars, mainVars, calls, tagVars, callVars, output, pc, kind, decl, queue, classSetupFailed, current, run_tests,
                   successes, failures, errors, skipped, ok_tags, fail_tags,
                   message_log, setUps, table>>

\* How setUpClass of a stage ends, given what it finds: whether the submission
\* file can be read, how many answer cells the notebook holds, and how the import
\* of the answer ends ("ok", "exception", or "exit": a BaseException such as the
\* SystemExit of a call of exit() at the top level of the answer).
SetUpResult(k, readable, cells, import) ==
    IF k.mode = "separate" /\ ~readable THEN "failed_open"
    ELSE IF ~k.exec_answer THEN "ok"
    ELSE IF k.style = "AS_IS" /\ cells > 1 THEN "failed_extract"
    ELSE IF import = "exception" THEN "failed_import"
    ELSE IF import = "exit" THEN "exit_import"
    ELSE "ok"

\* The except clause of exec_answer_cell's setUpClass.
CaughtInSetUp(r) == r = "failed_import"

\* TestSuite._handleClassSetUp with JudgeTestStageBase.setUpClass or the
\* setUpClass of exec_answer_cell.
setUpClass(s, readable, cells, import) ==
    LET k == kind[s]
        r == SetUpResult(k, readable, cells, import)
        wrote == k.exec_answer /\ k.style = "AS_IS" /\ r # "failed_open"
    IN
    /\ pc = "next"
    /\ queue # <<>>
    /\ previousClass = 0
    /\ s = Head(queue)[1]
    /\ setUps[s] = "no"
    /\ setUps' = [setUps EXCEPT ![s] = r]
    /\ IF CaughtInSetUp(r)
          THEN tearDownClass(s)
          ELSE /\ derivedFile' = (derivedFile \/ wrote)
               /\ answer' = [answer EXCEPT ![s] = k.exec_answer /\ r = "ok"]
               /\ UNCHANGED tearDowns
    /\ IF r = "exit_import"
          THEN /\ pc' = "crashed"
               /\ UNCHANGED <<previousClass, classSetupFailed, errors>>
          ELSE /\ pc' = "next"
               /\ previousClass' = s
               /\ classSetupFailed' = [classSetupFailed EXCEPT ![s] = (r # "ok")]
               /\ errors' = IF r # "ok" THEN errors \cup {<<s, ErrorHolder>>} ELSE errors
    /\ UNCHANGED <<buildVars, libVars, mainVars, calls, tagVars, callVars, output, kind, decl, queue, current, run_tests, successes, failures,
                   skipped, ok_tags, fail_tags, message_log, table>>

\* TestSuite.run: a test of a class whose setUpClass failed is passed over.
passOver ==
    /\ pc = "next"
    /\ queue # <<>>
    /\ Head(queue)[1] = previousClass
    /\ classSetupFailed[previousClass]
    /\ queue' = Tail(queue)
    /\ UNCHANGED <<buildVars, libVars, mainVars, calls, tagVars, callVars, output, pc, kind, decl, previousClass, classSetupFailed, current,
                   run_tests, successes, failures, errors, skipped, ok_tags,
                   fail_tags, message_log, derivedFile, answer, tearDowns, setUps,
                   table>>

\* PREDEFINED_TAGS: name -> the fields of the tag.
PREDEFINED_TAGS ==
    LET rawcheck == {"SE", "SCE", "MCE", "UMI", "TE", "IOT"}
        plain == {"ND", "NF"}
    IN
    [n \in rawcheck \cup plain \cup {"QE", "CO", "IO"} |->
        [name |-> n,
         description |-> CASE n = "SE" -> "Syntax Error"
                           [] n = "SCE" -> "Shell Command (!command) Exists"
                           [] n = "MCE" -> "Magic Command (%command) Exists"
                           [] n = "UMI" -> "Unsupported Module Imported"
                           [] n = "TE" -> "Top-level Error"
                           [] n = "IOT" -> "I/O found at Top level"
                           [] n = "QE" -> "Question Exists"
                           [] n = "CO" -> "Correct Output"
                           [] n = "IO" -> "Incorrect Output"
                           [] n = "ND" -> "No Definition"
                           [] n = "NF" -> "Not Filled",
         background_color |-> CASE n \in rawcheck -> "#ffbf3f"
                                [] n = "QE" -> "#6f00ff"
                                [] n = "CO" -> "#7fbf7f"
                                [] n = "IO" -> "#bf7f7f"
                                [] n \in plain -> "#333333",
         font_color |-> CASE n \in rawcheck -> "#ffdfbf"
                          [] n = "QE" -> "#e5d1ff"
                          [] n = "CO" -> "#dfffdf"
                          [] n = "IO" -> "#ffdfdf"
                          [] n \in plain -> "#cccccc",
         visible |-> TRUE]]

\* The values a body may hand to set_ok_tag and set_fail_tag: None, the name of
\* a tag, an EvaluationTag (here one of the predefined ones), or something else,
\* hashable (another string) or not (a list).
NoneArg == [type |-> "NoneType", value |-> "None"]
StrArg(n) == [type |-> "str", value |-> n]
TagArg(n) == [type |-> "EvaluationTag", value |-> n]
ListArg(n) == [type |-> "list", value |-> n]

\* hash(k) of k in self.__map succeeds.
Hashable(v) == v.type # "list"

\* EvaluationTagMapping.__contains__ on PREDEFINED_TAGS, for a hashable key.
Predefined(v) == v.type = "str" /\ v.value \in DOMAIN PREDEFINED_TAGS

\* A setter that adds the tag to the list the case holds.
TagsAfter_Append(old, v) ==
    IF v.type = "NoneType" THEN [error |-> "", tags |-> <<>>]
    ELSE [error |-> "", tags |-> Append(old, v.value)]

\* The if-chain of set_ok_tag and set_fail_tag: the list the attribute is bound
\* to, or the exception raised.
TagsAfter(old, v) ==
    IF v.type = "NoneType" THEN [error |-> "", tags |-> <<>>]
    ELSE IF v.type = "EvaluationTag" THEN [error |-> "", tags |-> <<v.value>>]
    ELSE IF ~Hashable(v) THEN [error |-> "TypeError", tags |-> old]
    ELSE IF Predefined(v) THEN [error |-> "", tags |-> <<v.value>>]
    ELSE [error |-> "ValueError", tags |-> old]

\* The list t.ok_tags / t.fail_tags resolves to: the instance attribute if
\* there is one, else the class attribute.
OkTagsOf(t) == IF <<"ok_tags", t>> \in ownTags THEN ok_tags[t] ELSE ok_tags[ClassLevel]
FailTagsOf(t) ==
    IF <<"fail_tags", t>> \in ownTags THEN fail_tags[t] ELSE fail_tags[ClassLevel]

\* A test_method wrapper that sets the fail tag only.
PresetOk_FailOnly(c, old) == old

\* The tags the wrapper of a case sets on entry.
PresetOk(c, old) == IF c.role = "test" THEN <<"CO">> ELSE old
PresetFail(c) == IF c.fail_tag = "None" THEN <<>> ELSE <<c.fail_tag>>

\* TestCase.run up to the body: JudgeTestResult.startTest, then the entry of
\* wrapper_method (set_ok_tag / set_fail_tag).
startTest ==
    /\ pc = "next"
    /\ queue # <<>>
    /\ Head(queue)[1] = previousClass
    /\ ~classSetupFailed[previousClass]
    /\ LET t == Head(queue) IN
         /\ run_tests' = Append(run_tests, t)
         /\ ok_tags' = [ok_tags EXCEPT ![t] = PresetOk(CaseOf(t), @)]
         /\ fail_tags' = [fail_tags EXCEPT ![t] = PresetFail(CaseOf(t))]
         /\ ownTags' = ownTags \cup {<<"fail_tags", t>>}
                           \cup (IF CaseOf(t).role = "test" THEN {<<"ok_tags", t>>} ELSE {})
         /\ raised' = NoRaise
         /\ current' = t
    /\ queue' = Tail(queue)
    /\ pc' = "body"
    /\ UNCHANGED <<buildVars, libVars, mainVars, calls, tagVars, output, kind, decl,
                   previousClass, classSetupFailed, successes, failures, errors,
                   skipped, message_log, derivedFile, answer, tearDowns, setUps, table>>

\* The messages a case may record: one text for each call of unittest_main
\* (counted by the calls still to make) and each case name.
MessageTexts == << <<"m0.1", "m0.2">>, <<"m1.1", "m1.2">>, <<"m2.1", "m2.2">>,
                   <<"m3.1", "m3.2">> >>
MessageIn(c, n) == MessageTexts[c + 1][n]
Messages == {MessageTexts[i][n] : i \in DOMAIN MessageTexts, n \in CaseNames}

MapSet(f, k, v) == [x \in DOMAIN f \cup {k} |-> IF x = k THEN v ELSE f[x]]
MapPop(f, k) == [x \in DOMAIN f \ {k} |-> f[x]]

\* A log that is kept for the class of the case (_message_log[type(testcase)]):
\* the message is found under every case of the stage.
set_unsuccessful_message_PerClass(m) ==
    /\ pc = "body"
    /\ message_log' = [t \in DOMAIN message_log \cup {u \in Tests : u[1] = current[1]} |->
                          IF t[1] = current[1] THEN m ELSE message_log[t]]
    /\ UNCHANGED <<buildVars, libVars, mainVars, calls, tagVars, callVars, output, pc, kind,
                   decl, queue, previousClass, classSetupFailed, current, run_tests,
                   successes, failures, errors, skipped, ok_tags, fail_tags, derivedFile,
                   answer, tearDowns, setUps, table>>

\* set_unsuccessful_message(testcase, msg), called by the body of the case.
set_unsuccessful_message(m) ==
    /\ pc = "body"
    /\ message_log' = MapSet(message_log, current, m)
    /\ UNCHANGED <<buildVars, libVars, mainVars, calls, tagVars, callVars, output, pc, kind, decl, queue, previousClass, classSetupFailed, current,
                   run_tests, successes, failures, errors, skipped, ok_tags,
                   fail_tags, derivedFile, answer, tearDowns, setUps, table>>

\* A set_ok_tag that writes into the list it finds (self.ok_tags[:] = [tag])
\* instead of binding a new one.
set_ok_tag_InPlace(ok_tag) ==
    /\ pc = "body"
    /\ LET holder == IF <<"ok_tags", current>> \in ownTags THEN current ELSE ClassLevel
           r == TagsAfter(OkTagsOf(current), ok_tag)
       IN
         /\ ok_tags' = [ok_tags EXCEPT ![holder] = r.tags]
         /\ raised' = IF r.error = "" THEN NoRaise
                       ELSE [fn |-> "set_ok_tag", tag |-> ok_tag, exception |-> "",
                             error |-> r.error]
    /\ UNCHANGED <<buildVars, libVars, mainVars, calls, tagVars, output, pc, kind, decl,
                   queue, previousClass, classSetupFailed, current, run_tests, successes,
                   failures, errors, skipped, fail_tags, ownTags, message_log, derivedFile,
                   answer, tearDowns, setUps, table>>

\* set_ok_tag(self, ok_tag), called by the body of the case.
set_ok_tag(ok_tag) ==
    /\ pc = "body"
    /\ LET r == TagsAfter(OkTagsOf(current), ok_tag) IN
         IF r.error = ""
         THEN /\ ok_tags' = [ok_tags EXCEPT ![current] = r.tags]
              /\ ownTags' = ownTags \cup {<<"ok_tags", current>>}
              /\ raised' = NoRaise
         ELSE /\ raised' = [fn |-> "set_ok_tag", tag |-> ok_tag, exception |-> "",
                            error |-> r.error]
              /\ UNCHANGED <<ok_tags, ownTags>>
    /\ UNCHANGED <<buildVars, libVars, mainVars, calls, tagVars, output, pc, kind, decl,
                   queue, previousClass, classSetupFailed, current, run_tests, successes,
                   failures, errors, skipped, fail_tags, message_log, derivedFile, answer,
                   tearDowns, setUps, table>>

\* set_fail_tag(self, fail_tag), called by the body of the case.
set_fail_tag(fail_tag) ==
    /\ pc = "body"
    /\ LET r == TagsAfter(FailTagsOf(current), fail_tag) IN
         IF r.error = ""
         THEN /\ fail_tags' = [fail_tags EXCEPT ![current] = r.tags]
              /\ ownTags' = ownTags \cup {<<"fail_tags", current>>}
              /\ raised' = NoRaise
         ELSE /\ raised' = [fn |-> "set_fail_tag", tag |-> fail_tag, exception |-> "",
                            error |-> r.error]
              /\ UNCHANGED <<fail_tags, ownTags>>
    /\ UNCHANGED <<buildVars, libVars, mainVars, calls, tagVars, output, pc, kind, decl,
                   queue, previousClass, classSetupFailed, current, run_tests, successes,
                   failures, errors, skipped, ok_tags, message_log, derivedFile, answer,
                   tearDowns, setUps, table>>

\* The exception classes of the model, each with its base class.
ExceptionBases ==
    [X \in {"BaseException", "KeyboardInterrupt", "Exception", "AttributeError",
            "ValueError", "TypeError", "AssertionError", "SyntaxError", "NameError",
            "OSError", "FileNotFoundError", "ImportError", "ModuleNotFoundError",
            "RuntimeError"} |->
        CASE X = "BaseException" -> ""
          [] X \in {"KeyboardInterrupt", "Exception"} -> "BaseException"
          [] X = "FileNotFoundError" -> "OSError"
          [] X = "ModuleNotFoundError" -> "ImportError"
          [] OTHER -> "Exception"]
Exceptions == {"Exception", "AttributeError", "ValueError"}

\* issubclass(X, E)
RECURSIVE issubclass(_, _)
issubclass(X, E) ==
    IF X = E THEN TRUE
    ELSE IF ExceptionBases[X] = "" THEN FALSE
    ELSE issubclass(ExceptionBases[X], E)

\* The dict t.error_tag_rules resolves to: the instance attribute if there is
\* one, else the class attribute.
RulesOf(t) == IF t \in ownRules THEN error_tag_rules[t] ELSE error_tag_rules[ClassLevel]

\* {**d, e: tag}: a known key keeps its place, a new key goes to the end.
DictSet(d, e, tag) ==
    IF \E i \in DOMAIN d : d[i][1] = e
    THEN [i \in DOMAIN d |-> IF d[i][1] = e THEN <<e, tag>> ELSE d[i]]
    ELSE Append(d, <<e, tag>>)

\* d.pop(e, None)
RECURSIVE DictPop(_, _)
DictPop(d, e) ==
    IF d = <<>> THEN <<>>
    ELSE IF Head(d)[1] = e THEN Tail(d)
    ELSE <<Head(d)>> \o DictPop(Tail(d), e)

\* What set_error_tag raises for its arguments ("": nothing): the exception
\* must be a subclass of Exception, the tag None or the name of a predefined tag.
ErrorOfRule(error_tag, exception) ==
    IF ~issubclass(exception, "Exception") THEN "ValueError"
    ELSE IF error_tag = "None" THEN ""
    ELSE IF error_tag \in DOMAIN PREDEFINED_TAGS THEN ""
    ELSE "ValueError"

\* The call of set_error_tag that raised.
RaisedByRule(error_tag, exception) ==
    IF ErrorOfRule(error_tag, exception) = "" THEN NoRaise
    ELSE [fn |-> "set_error_tag",
          tag |-> IF error_tag = "None" THEN NoneArg ELSE StrArg(error_tag),
          exception |-> exception, error |-> ErrorOfRule(error_tag, exception)]

\* A set_error_tag that writes the rule into the dict it finds
\* (self.error_tag_rules[exception] = tag) instead of binding a new dict.
set_error_tag_InPlace(error_tag, exception) ==
    /\ pc = "body"
    /\ raised' = RaisedByRule(error_tag, exception)
    /\ IF ErrorOfRule(error_tag, exception) # ""
          THEN UNCHANGED error_tag_rules
          ELSE LET holder == IF current \in ownRules THEN current ELSE ClassLevel IN
               error_tag_rules' = [error_tag_rules EXCEPT ![holder] =
                                      IF error_tag = "None" THEN DictPop(@, exception)
                                      ELSE DictSet(@, exception, error_tag)]
    /\ UNCHANGED <<buildVars, libVars, mainVars, calls, ownRules, exc_info, ownTags, output,
                   pc, kind, decl, queue, previousClass, classSetupFailed, current,
                   run_tests, successes, failures, errors, skipped, ok_tags, fail_tags,
                   message_log, derivedFile, answer, tearDowns, setUps, table>>

\* set_error_tag(self, error_tag, exception), called by the body of the case
\* with None or the name of a tag and with an exception class.
set_error_tag(error_tag, exception) ==
    /\ pc = "body"
    /\ raised' = RaisedByRule(error_tag, exception)
    /\ IF ErrorOfRule(error_tag, exception) # ""
          THEN UNCHANGED <<error_tag_rules, ownRules>>
          ELSE IF error_tag = "None"
          THEN LET holder == IF current \in ownRules THEN current ELSE ClassLevel IN
               /\ error_tag_rules' = [error_tag_rules EXCEPT ![holder] = DictPop(@, exception)]
               /\ UNCHANGED ownRules
          ELSE /\ error_tag_rules' = [error_tag_rules EXCEPT ![current] =
                                         DictSet(RulesOf(current), exception, error_tag)]
               /\ ownRules' = ownRules \cup {current}
    /\ UNCHANGED <<buildVars, libVars, mainVars, calls, exc_info, ownTags, output, pc, kind,
                   decl, queue, previousClass, classSetupFailed, current, run_tests,
                   successes, failures, errors, skipped, ok_tags, fail_tags, message_log,
                   derivedFile, answer, tearDowns, setUps, table>>

\* An addSuccess that leaves the message of the case in the log.
addSuccess_KeepsMessage ==
    /\ pc = "body"
    /\ successes' = successes \cup {current}
    /\ pc' = "next"
    /\ current' = NoTest
    /\ raised' = NoRaise
    /\ UNCHANGED <<buildVars, libVars, mainVars, calls, tagVars, ownTags, output, kind, decl, queue, previousClass,
                   classSetupFailed, run_tests, failures, errors, skipped, ok_tags,
                   fail_tags, message_log, derivedFile, answer, tearDowns, setUps, table>>

\* The body returned: JudgeTestResult.addSuccess.
addSuccess ==
    /\ pc = "body"
    /\ successes' = successes \cup {current}
    /\ message_log' = MapPop(message_log, current)
    /\ pc' = "next"
    /\ current' = NoTest
    /\ raised' = NoRaise
    /\ UNCHANGED <<buildVars, libVars, mainVars, calls, tagVars, ownTags, output, kind, decl, queue, previousClass, classSetupFailed, run_tests,
                   failures, errors, skipped, ok_tags, fail_tags, derivedFile,
                   answer, tearDowns, setUps, table>>

\* A result that stops the run at the first failure (failfast).
addFailure_Failfast ==
    /\ pc = "body"
    /\ failures' = failures \cup {current}
    /\ pc' = "next"
    /\ current' = NoTest
    /\ raised' = NoRaise
    /\ queue' = <<>>
    /\ UNCHANGED <<buildVars, libVars, mainVars, calls, tagVars, ownTags, output, kind, decl, previousClass, classSetupFailed, run_tests,
                   successes, errors, skipped, ok_tags, fail_tags, message_log,
                   derivedFile, answer, tearDowns, setUps, table>>

\* The body failed an assertion: TestResult.addFailure.
addFailure ==
    /\ pc = "body"
    /\ failures' = failures \cup {current}
    /\ pc' = "next"
    /\ current' = NoTest
    /\ raised' = NoRaise
    /\ UNCHANGED <<buildVars, libVars, mainVars, calls, tagVars, ownTags, output, kind, decl, queue, previousClass, classSetupFailed, run_tests,
                   successes, errors, skipped, ok_tags, fail_tags, message_log,
                   derivedFile, answer, tearDowns, setUps, table>>

\* The body raised another exception, of class X: JudgeTestResult.addError.
addError(X) ==
    /\ pc = "body"
    /\ errors' = errors \cup {current}
    /\ exc_info' = MapSet(exc_info, current, X)
    /\ pc' = "next"
    /\ current' = NoTest
    /\ raised' = NoRaise
    /\ UNCHANGED <<buildVars, libVars, mainVars, calls, error_tag_rules, ownRules, ownTags, output, kind, decl, queue,
                   previousClass, classSetupFailed, run_tests, successes, failures,
                   skipped, ok_tags, fail_tags, message_log, derivedFile, answer,
                   tearDowns, setUps, table>>

\* The body raised unittest.SkipTest (self.skipTest): TestResult.addSkip, which
\* JudgeTestResult does not override.
addSkip ==
    /\ pc = "body"
    /\ skipped' = skipped \cup {current}
    /\ pc' = "next"
    /\ current' = NoTest
    /\ raised' = NoRaise
    /\ UNCHANGED <<buildVars, libVars, mainVars, calls, tagVars, ownTags, output, kind, decl, queue, previousClass, classSetupFailed, run_tests,
                   successes, failures, errors, ok_tags, fail_tags, message_log,
                   derivedFile, answer, tearDowns, setUps, table>>

\* _message_log.get(t, '')
MessageOf(t) == IF t \in DOMAIN message_log THEN message_log[t] ELSE ""

\* A to_table that takes the tag of the first matching rule only.
RECURSIVE MatchingTags_FirstOnly(_, _)
MatchingTags_FirstOnly(d, X) ==
    IF d = <<>> THEN <<>>
    ELSE IF issubclass(X, Head(d)[1]) THEN <<Head(d)[2]>>
    ELSE MatchingTags_FirstOnly(Tail(d), X)

\* [tag for e, tag in t.error_tag_rules.items() if issubclass(exc_info[t][0], e)]
RECURSIVE MatchingTags(_, _)
MatchingTags(d, X) ==
    IF d = <<>> THEN <<>>
    ELSE (IF issubclass(X, Head(d)[1]) THEN <<Head(d)[2]>> ELSE <<>>)
         \o MatchingTags(Tail(d), X)

\* A to_table whose ERROR branch is missing.
Record_NoErrorBranch(t) ==
    IF t \in successes THEN
        [name |-> t[2], status |-> "PASS", tags |-> OkTagsOf(t), err |-> "",
         msg |-> MessageOf(t)]
    ELSE IF t \in failures THEN
        [name |-> t[2], status |-> "FAIL", tags |-> FailTagsOf(t), err |-> "failure",
         msg |-> MessageOf(t)]
    ELSE
        [name |-> t[2], status |-> "UNKNOWN", tags |-> <<>>, err |-> "", msg |-> ""]

\* One row of JudgeTestResult.to_table.
Record(t) ==
    IF t \in successes THEN
        [name |-> t[2], status |-> "PASS", tags |-> OkTagsOf(t), err |-> "",
         msg |-> MessageOf(t)]
    ELSE IF t \in failures THEN
        [name |-> t[2], status |-> "FAIL", tags |-> FailTagsOf(t), err |-> "failure",
         msg |-> MessageOf(t)]
    ELSE IF t \in errors THEN
        [name |-> t[2], status |-> "ERROR",
         tags |-> MatchingTags(RulesOf(t), exc_info[t]), err |-> "error",
         msg |-> MessageOf(t)]
    ELSE
        [name |-> t[2], status |-> "UNKNOWN", tags |-> <<>>, err |-> "", msg |-> ""]

\* JudgeTestResult.to_table: one row for each test in run_tests, in that order.
to_table == [i \in 1..Len(run_tests) |-> Record(run_tests[i])]

\* ResultStatus.<X>.name.lower()
StatusLower(st) ==
    CASE st = "PASS" -> "pass"
      [] st = "FAIL" -> "fail"
      [] st = "ERROR" -> "error"
      [] st = "UNKNOWN" -> "unknown"

\* A to_json that gives of each tag its name only.
to_json_TagNames ==
    [i \in DOMAIN to_table |->
        [name |-> to_table[i].name,
         status |-> StatusLower(to_table[i].status),
         tags |-> [k \in DOMAIN to_table[i].tags |-> [name |-> to_table[i].tags[k]]],
         err |-> to_table[i].err,
         msg |-> to_table[i].msg]]

\* JudgeTestResult.to_json: the rows of to_table as dictionaries, the status
\* by its lower-case name and each tag by dataclasses.asdict.
to_json ==
    [i \in DOMAIN to_table |->
        [name |-> to_table[i].name,
         status |-> StatusLower(to_table[i].status),
         tags |-> [k \in DOMAIN to_table[i].tags |-> PREDEFINED_TAGS[to_table[i].tags[k]]],
         err |-> to_table[i].err,
         msg |-> to_table[i].msg]]

\* to_table(stage_name): the rows with the name qualified by the stage.
to_table_of_stages ==
    [i \in 1..Len(run_tests) |->
        [Record(run_tests[i]) EXCEPT !.name = <<run_tests[i][1], run_tests[i][2]>>]]

\* render_summary_table: one <tr> for each record.
render_summary_table(records) ==
    [i \in DOMAIN records |->
        [name |-> records[i].name, status |-> StatusLower(records[i].status),
         tags |-> records[i].tags]]

\* A details renderer that writes sections for failures only.
unsuccessful_FailuresOnly(record) == record.status = "FAIL"

\* The filter of render_details_html: x.status != ResultStatus.PASS
unsuccessful(record) == record.status # "PASS"

\* render_details_html: one <section> for each record that is not a PASS.
render_details_html(rows) ==
    LET kept == SelectSeq(rows, unsuccessful) IN
    [i \in DOMAIN kept |->
        [name |-> kept[i].name, status |-> StatusLower(kept[i].status),
         msg |-> kept[i].msg, err |-> kept[i].err]]

\* The tags render_evaluation_html collects from the rows for the legend.
TagsOfRows(rows) == UNION {Range(rows[i].tags) : i \in DOMAIN rows}

\* render_evaluation_html: the summary table, the legend of the tags that occur
\* (a set here; to_html writes it sorted by name) and the details.
render_evaluation_html(rows) ==
    [on_ipynb |-> TRUE, json |-> <<>>,
     summary |-> render_summary_table(rows),
     legend |-> TagsOfRows(rows),
     details |-> render_details_html(rows)]

\* The end of unittest_main: the suite is through, the result is rendered as
\* HTML and returned (on_ipynb) or printed as JSON.
report(on_ipynb) ==
    /\ pc = "next"
    /\ queue = <<>>
    /\ previousClass = 0
    /\ table' = to_table
    /\ output' = IF on_ipynb
                    THEN render_evaluation_html(to_table_of_stages)
                    ELSE [NoOutput EXCEPT !.json = to_json]
    /\ pc' = "done"
    /\ UNCHANGED <<buildVars, libVars, mainVars, calls, tagVars, callVars, kind, decl, queue, previousClass,
                   classSetupFailed, current, run_tests, successes, failures, errors,
                   skipped, ok_tags, fail_tags, message_log, derivedFile, answer,
                   tearDowns, setUps>>

FailTagArgs == {"None", "TE"}

Next ==
    \/ \E s \in Stages, k \in StageKinds : teststage(s, k)
    \/ \E s \in Stages, n \in CaseNames, f \in FailTagArgs : check_method(s, n, f)
    \/ \E s \in Stages, n \in CaseNames : test_method(s, n)
    \/ unittest_main
    \/ tearDownPreviousClass
    \/ \E s \in Stages, readable \in BOOLEAN, cells \in 0..2,
          import \in {"ok", "exception", "exit"} : setUpClass(s, readable, cells, import)
    \/ passOver
    \/ startTest
    \/ addSuccess
    \/ addFailure
    \/ addError("ValueError")
    \/ addSkip
    \/ \E on_ipynb \in BOOLEAN : report(on_ipynb)

Spec == Init /\ [][Next]_vars

\* ------------------------------------------------- runs in one process

\* The calls of unittest_main that one process makes (a notebook that runs its
\* test cell again).
MaxRuns == 2

\* One stage in append mode with a test_method case declared before a
\* check_method case; the process is about to call unittest_main.
SessionInit ==
    /\ BuildOff
    /\ pc = "declare"
    /\ kind = [s \in Stages |->
                 IF s = 1 THEN [style |-> "FORMATTED", mode |-> "append", exec_answer |-> FALSE]
                 ELSE NoStage]
    /\ decl = [s \in Stages |->
                 IF s = 1 THEN <<[name |-> 2, role |-> "test", fail_tag |-> "IO"],
                                 [name |-> 1, role |-> "check", fail_tag |-> "TE"]>>
                 ELSE <<>>]
    /\ queue = <<>>
    /\ previousClass = 0
    /\ classSetupFailed = [s \in Stages |-> FALSE]
    /\ current = NoTest
    /\ run_tests = <<>>
    /\ successes = {}
    /\ failures = {}
    /\ errors = {}
    /\ skipped = {}
    /\ ok_tags = [t \in Tests \cup {ClassLevel} |-> <<>>]
    /\ fail_tags = [t \in Tests \cup {ClassLevel} |-> <<>>]
    /\ message_log = <<>>
    /\ derivedFile = FALSE
    /\ answer = [s \in Stages |-> FALSE]
    /\ tearDowns = [s \in Stages |-> 0]
    /\ setUps = [s \in Stages |-> "no"]
    /\ table = <<>>
    /\ calls = MaxRuns
    /\ NoRules
    /\ output = NoOutput
    /\ LibOff
    /\ MainOff

SessionNext ==
    \/ unittest_main
    \/ tearDownPreviousClass
    \/ \E s \in Stages, readable \in BOOLEAN : setUpClass(s, readable, 1, "ok")
    \/ startTest
    \/ \E m \in Messages :
          pc = "body" /\ m = MessageIn(calls, current[2]) /\ set_unsuccessful_message(m)
    \/ \E error_tag \in {"None", "ND", "TE"}, exception \in {"Exception", "AttributeError"} :
          set_error_tag(error_tag, exception)
    \/ addSuccess
    \/ addFailure
    \/ \E X \in {"AttributeError", "ValueError"} : addError(X)
    \/ addSkip
    \/ \E on_ipynb \in BOOLEAN : report(on_ipynb)

SessionSpec == SessionInit /\ [][SessionNext]_vars

\* ------------------------------------------------- the bodies of the cases

\* No run has started: the values of the run variables before unittest_main,
\* with c calls of unittest_main to come, and nothing else going on.
RunStart(c) ==
    /\ queue = <<>>
    /\ previousClass = 0
    /\ classSetupFailed = [s \in Stages |-> FALSE]
    /\ current = NoTest
    /\ run_tests = <<>>
    /\ successes = {}
    /\ failures = {}
    /\ errors = {}
    /\ skipped = {}
    /\ ok_tags = [t \in Tests \cup {ClassLevel} |-> <<>>]
    /\ fail_tags = [t \in Tests \cup {ClassLevel} |-> <<>>]
    /\ message_log = <<>>
    /\ derivedFile = FALSE
    /\ answer = [s \in Stages |-> FALSE]
    /\ tearDowns = [s \in Stages |-> 0]
    /\ setUps = [s \in Stages |-> "no"]
    /\ table = <<>>
    /\ calls = c
    /\ NoRules
    /\ output = NoOutput
    /\ BuildOff
    /\ LibOff
    /\ MainOff

\* One stage in append mode with a check_method case (fail_tag 'TE' or None)
\* and a test_method case; the module is about to call unittest_main.
CaseInit ==
    /\ pc = "declare"
    /\ kind = [s \in Stages |->
                 IF s = 1 THEN [style |-> "FORMATTED", mode |-> "append", exec_answer |-> FALSE]
                 ELSE NoStage]
    /\ \E f \in FailTagArgs :
          decl = [s \in Stages |->
                    IF s = 1 THEN <<[name |-> 1, role |-> "check", fail_tag |-> f],
                                    [name |-> 2, role |-> "test", fail_tag |-> "IO"]>>
                    ELSE <<>>]
    /\ RunStart(1)

\* What the bodies of the cases hand to the setters.
BodyOkTagArgs == {NoneArg, StrArg("QE"), ListArg("CO")}
BodyFailTagArgs == {NoneArg, TagArg("ND"), StrArg("XX")}

BodyRuleArgs == {<<"None", "ValueError">>, <<"ND", "ValueError">>, <<"XX", "ValueError">>,
                 <<"ND", "KeyboardInterrupt">>}

CaseNext ==
    \/ unittest_main
    \/ tearDownPreviousClass
    \/ \E s \in Stages : setUpClass(s, TRUE, 1, "ok")
    \/ startTest
    \/ \E ok_tag \in BodyOkTagArgs : set_ok_tag(ok_tag)
    \/ \E fail_tag \in BodyFailTagArgs : set_fail_tag(fail_tag)
    \/ \E rule \in BodyRuleArgs : set_error_tag(rule[1], rule[2])
    \/ \E c \in {0, 1} : pc = "body" /\ set_unsuccessful_message(MessageIn(c, current[2]))
    \/ addSuccess
    \/ addFailure
    \/ addError("ValueError")
    \/ report(FALSE)

CaseSpec == CaseInit /\ [][CaseNext]_vars

\* ------------------------------------------------ the library used directly

\* The tags handed to one EvaluationTagMapping.
MaxTags == 2
\* The lookups made on one registry.
MaxCalls == 3
\* The cells of a submitted notebook.
MaxCells == 2

\* All sequences over S of length at most n.
SeqsUpTo(S, n) == UNION {[1..k -> S] : k \in 0..n}

\* EvaluationTag values: two names, two descriptions (the other fields default).
TagValues == [name : {"A", "B"}, description : {"x", "y"}]
TagNames == {"A", "B", "Z"}

\* cell['source'] is a string, a list of strings, or something else; a text is
\* the sequence of its lines.
SourceValues ==
    { [kind |-> "str", parts |-> << <<"a">> >>],
      [kind |-> "list", parts |-> << <<"b">>, <<"c">> >>],
      [kind |-> "other", parts |-> <<>>] }

\* The cells of a notebook: metadata.get('name'), metadata.get('deletable', True)
\* and the source.
CellValues == [name : {"answer_cell", "question_cell", "None"}, deletable : BOOLEAN,
               source : SourceValues]

NoSubmission == [style |-> "none", text |-> <<>>, cells |-> <<>>]

\* A test author makes a registry of some tags, or a separate-mode stage has
\* loaded a submission: the text of submission.py or the cells of
\* submission.ipynb.
LibInit ==
    /\ lpc \in {"tags", "notebook", "wrapper"}
    /\ tags_given \in (IF lpc = "tags" THEN SeqsUpTo(TagValues, MaxTags) ELSE {<<>>})
    /\ registry = NoRegistry
    /\ results = <<>>
    /\ submission \in (IF lpc = "notebook"
                         THEN {[style |-> "FORMATTED", text |-> <<"a">>, cells |-> <<>>]}
                              \cup {[style |-> "AS_IS", text |-> <<>>, cells |-> c] :
                                       c \in SeqsUpTo(CellValues, MaxCells)}
                         ELSE {NoSubmission})
    /\ extracted = <<>>
    /\ wrapped = "none"
    /\ out = <<>>
    /\ returned = <<>>
    /\ MainOff
    /\ BuildOff
    /\ pc = "off"
    /\ kind = [s \in Stages |-> NoStage]
    /\ decl = [s \in Stages |-> <<>>]
    /\ queue = <<>>
    /\ previousClass = 0
    /\ classSetupFailed = [s \in Stages |-> FALSE]
    /\ current = NoTest
    /\ run_tests = <<>>
    /\ successes = {}
    /\ failures = {}
    /\ errors = {}
    /\ skipped = {}
    /\ ok_tags = [t \in Tests \cup {ClassLevel} |-> <<>>]
    /\ fail_tags = [t \in Tests \cup {ClassLevel} |-> <<>>]
    /\ message_log = <<>>
    /\ derivedFile = FALSE
    /\ answer = [s \in Stages |-> FALSE]
    /\ tearDowns = [s \in Stages |-> 0]
    /\ setUps = [s \in Stages |-> "no"]
    /\ table = <<>>
    /\ calls = 0
    /\ NoRules
    /\ output = NoOutput

\* {t.name: t for t in iterable}: a later tag replaces an earlier one of its name.
RECURSIVE TagMap(_)
TagMap(ts) ==
    IF ts = <<>> THEN <<>>
    ELSE LET front == SubSeq(ts, 1, Len(ts) - 1) IN
         MapSet(TagMap(front), ts[Len(ts)].name, ts[Len(ts)])

\* EvaluationTagMapping(iterable): tuple.__new__ takes the elements of the
\* iterable, then __init__ goes through the iterable again for the name map; a
\* one-shot iterator (a generator) is empty by then.
EvaluationTagMapping(one_shot) ==
    /\ lpc = "tags"
    /\ registry' = [tuple |-> tags_given,
                    map |-> IF one_shot THEN <<>> ELSE TagMap(tags_given)]
    /\ lpc' = "registry"
    /\ UNCHANGED <<wrapVars, tags_given, results, submission, extracted, mainVars, buildVars,
                   pc, kind, decl, runVars>>

NoTag == [name |-> "", description |-> ""]

\* EvaluationTagMapping.__getitem__: self.__map[k]
GetItem(reg, k) ==
    IF k \in DOMAIN reg.map
    THEN [op |-> "getitem", key |-> k, raised |-> "", tag |-> reg.map[k], found |-> TRUE]
    ELSE [op |-> "getitem", key |-> k, raised |-> "KeyError", tag |-> NoTag,
          found |-> FALSE]

\* A registry that keeps the membership test of tuple, here by the names of
\* the tags in the tuple.
Contains_OfTuple(reg, k) ==
    [op |-> "contains", key |-> k, raised |-> "", tag |-> NoTag,
     found |-> \E i \in DOMAIN reg.tuple : reg.tuple[i].name = k]

\* EvaluationTagMapping.__contains__: k in self.__map
Contains(reg, k) ==
    [op |-> "contains", key |-> k, raised |-> "", tag |-> NoTag,
     found |-> k \in DOMAIN reg.map]

\* registry[k]
getitem(k) ==
    /\ lpc = "registry"
    /\ Len(results) < MaxCalls
    /\ results' = Append(results, GetItem(registry, k))
    /\ UNCHANGED <<wrapVars, lpc, tags_given, registry, submission, extracted, mainVars,
                   buildVars, pc, kind, decl, runVars>>

\* k in registry
contains(k) ==
    /\ lpc = "registry"
    /\ Len(results) < MaxCalls
    /\ results' = Append(results, Contains(registry, k))
    /\ UNCHANGED <<wrapVars, lpc, tags_given, registry, submission, extracted, mainVars,
                   buildVars, pc, kind, decl, runVars>>

\* The special cells of a notebook, whether deletable or not.
Specials_AnyCell(cells, name) ==
    SelectSeq(cells, LAMBDA cell : cell.name = name)

\* [cell for cell in ipynb['cells'] if cell['metadata'].get('name') == name
\*  and not cell['metadata'].get('deletable', True)]
Specials(cells, name) ==
    SelectSeq(cells, LAMBDA cell : cell.name = name /\ ~cell.deletable)

\* extract_special_unique_cell: the cell, or the exception raised.
extract_special_unique_cell(cells, name) ==
    LET specials == Specials(cells, name) IN
    IF specials = <<>> THEN [raised |-> "KeyError", cell |-> <<>>]
    ELSE IF Len(specials) > 1 THEN [raised |-> "ValueError", cell |-> <<>>]
    ELSE [raised |-> "", cell |-> <<specials[1]>>]

\* ''.join(parts)
RECURSIVE Join(_)
Join(parts) == IF parts = <<>> THEN <<>> ELSE Head(parts) \o Join(Tail(parts))

\* cell_source_str: the string, or the joined list; for another type the raise
\* statement itself fails on cell.source, a dict has no such attribute.
cell_source_str(cell) ==
    IF cell.source.kind = "str" THEN [raised |-> "", source |-> cell.source.parts[1]]
    ELSE IF cell.source.kind = "list" THEN [raised |-> "", source |-> Join(cell.source.parts)]
    ELSE [raised |-> "AttributeError", source |-> <<>>]

\* The body shared by the two extractions of an AS_IS submission: KeyError is
\* caught and gives '', anything else goes up.
SourceOfSpecial(cells, name) ==
    LET found == extract_special_unique_cell(cells, name) IN
    IF found.raised = "KeyError" THEN [raised |-> "", source |-> <<>>]
    ELSE IF found.raised # "" THEN [raised |-> found.raised, source |-> <<>>]
    ELSE cell_source_str(found.cell[1])

\* extract_answer_cell_source(self), for a stage in separate mode.
extract_answer_cell_source ==
    /\ lpc = "notebook"
    /\ \A i \in DOMAIN extracted : extracted[i].fn # "answer"
    /\ extracted' = Append(extracted,
          IF submission.style = "AS_IS"
          THEN [fn |-> "answer"] @@ SourceOfSpecial(submission.cells, "answer_cell")
          ELSE [fn |-> "answer", raised |-> "", source |-> submission.text])
    /\ UNCHANGED <<wrapVars, lpc, tags_given, registry, results, submission, mainVars, buildVars,
                   pc, kind, decl, runVars>>

\* extract_question_cell_source(self): it asserts an AS_IS stage.
extract_question_cell_source ==
    /\ lpc = "notebook"
    /\ \A i \in DOMAIN extracted : extracted[i].fn # "question"
    /\ extracted' = Append(extracted,
          IF submission.style = "AS_IS"
          THEN [fn |-> "question"] @@ SourceOfSpecial(submission.cells, "question_cell")
          ELSE [fn |-> "question", raised |-> "AssertionError", source |-> <<>>])
    /\ UNCHANGED <<wrapVars, lpc, tags_given, registry, results, submission, mainVars, buildVars,
                   pc, kind, decl, runVars>>

\* print_return(func): the StringIO is made here, once for the wrapper, and the
\* print that writes into it.
print_return ==
    /\ lpc = "wrapper"
    /\ wrapped = "none"
    /\ wrapped' = "print_return"
    /\ out' = <<>>
    /\ UNCHANGED <<returned, lpc, tags_given, registry, results, submission, extracted,
                   mainVars, buildVars, pc, kind, decl, runVars>>

\* stdout_return(func): the StringIO is made here, once for the wrapper.
stdout_return ==
    /\ lpc = "wrapper"
    /\ wrapped = "none"
    /\ wrapped' = "stdout_return"
    /\ out' = <<>>
    /\ UNCHANGED <<returned, lpc, tags_given, registry, results, submission, extracted,
                   mainVars, buildVars, pc, kind, decl, runVars>>

\* The texts the wrapped function prints in one call.
PrintedTexts == {<<>>, <<"a">>, <<"b">>}

\* wrapper(*args, **kwargs): func runs with its output going to the StringIO,
\* then out.getvalue() is returned; when func raises, the call returns nothing
\* and what it printed stays in the StringIO.
wrapper(printed, fails) ==
    /\ wrapped # "none"
    /\ Len(returned) < MaxCalls
    /\ out' = out \o printed
    /\ returned' = Append(returned,
                          [printed |-> printed, raised |-> fails,
                           value |-> IF fails THEN <<>> ELSE out \o printed])
    /\ UNCHANGED <<wrapped, lpc, tags_given, registry, results, submission, extracted,
                   mainVars, buildVars, pc, kind, decl, runVars>>

LibNext ==
    \/ \E one_shot \in BOOLEAN : EvaluationTagMapping(one_shot)
    \/ \E k \in TagNames : getitem(k)
    \/ \E k \in TagNames : contains(k)
    \/ extract_answer_cell_source
    \/ extract_question_cell_source
    \/ print_return
    \/ stdout_return
    \/ \E printed \in PrintedTexts, fails \in BOOLEAN : wrapper(printed, fails)

LibSpec == LibInit /\ [][LibNext]_vars

\* --------------------------------------------------------- the raw-check stage

\* The top-level code a learner may submit, one line each, as its tokens.
Programs ==
    { <<"x", "=", "1">>, <<"QUESTION_EXISTS", "=", "True">>,
      <<"!", "ls">>, <<"%", "time", "x">>, <<"!", "echo", "%">>, <<"x", "=", "(">>,
      <<"return", "1">>,
      <<"undefined_name">>, <<"open", "(", "f", ")">>, <<"import", "nosuchmod">>,
      <<"raise", "FileNotFoundError">>, <<"raise", "RuntimeError">> }

\* What exec(src, {'__name__': '__main__', 'open': canary_open}) does with a
\* program: the exception it raises ("": none) and, for a SyntaxError, its text.
\* The parser gives the offending line as text; an error found after parsing
\* ('return' outside function) has text None. "canary": the code called open.
exec(src) ==
    LET NoText == [has_text |-> FALSE, text |-> <<>>] IN
    IF "!" \in Range(src) \/ "%" \in Range(src) \/ src = <<"x", "=", "(">>
    THEN [raised |-> "SyntaxError", has_text |-> TRUE, text |-> src]
    ELSE IF src[1] = "return" THEN [raised |-> "SyntaxError"] @@ NoText
    ELSE IF src[1] = "undefined_name" THEN [raised |-> "NameError"] @@ NoText
    ELSE IF src[1] = "open" THEN [raised |-> "canary"] @@ NoText
    ELSE IF src[1] = "import" THEN [raised |-> "ModuleNotFoundError"] @@ NoText
    ELSE IF src[1] = "raise" THEN [raised |-> src[2]] @@ NoText
    ELSE [raised |-> ""] @@ NoText

\* The module that holds the stage: rawcheck.py for a FORMATTED stage,
\* rawcheck_as_is.py for an AS_IS one.
RawCheckModule(s) == IF kind[s].style = "AS_IS" THEN "rawcheck_as_is" ELSE "rawcheck"

\* The source toplevel_check looks at: self.submission, or the answer cell.
ToplevelSource(s) ==
    IF RawCheckModule(s) = "rawcheck" THEN [raised |-> "", source |-> submission.text]
    ELSE SourceOfSpecial(submission.cells, "answer_cell")

\* The calls of set_fail_tag that an except clause of toplevel_check makes
\* before self.fail(), as the tag names handed over.
TagsOfClause(module, r) ==
    IF r.raised = "SyntaxError" THEN
        (IF "!" \in Range(r.text) THEN <<"SCE">>
         ELSE IF "%" \in Range(r.text) THEN <<"MCE">>
         ELSE <<"SE">>)
    ELSE IF r.raised = "NameError" THEN (IF module = "rawcheck" THEN <<"UNU">> ELSE <<>>)
    ELSE IF r.raised \in {"FileNotFoundError", "canary"} THEN <<"IOT">>
    ELSE IF r.raised = "ModuleNotFoundError" THEN <<"UMI">>
    ELSE <<>>

\* The body of toplevel_check: how the case ends ("pass", "fail", or "error"
\* with the class of the exception), the fail tags it then holds and the
\* message it recorded. `old` holds the fail tags on entry.
ToplevelCheck(module, found, old) ==
    LET Ends(o, X, tags, m) == [outcome |-> o, error |-> X, fail_tags |-> tags, msg |-> m]
    IN
    IF found.raised # "" THEN Ends("error", found.raised, old, "")
    ELSE IF found.source = <<>> THEN Ends("pass", "", old, "")
    ELSE
      LET r == exec(found.source) IN
      IF r.raised = "" THEN Ends("pass", "", old, "")
      ELSE IF r.raised = "SyntaxError" /\ ~r.has_text
        THEN Ends("error", "TypeError", old, "")
      ELSE
        LET names == TagsOfClause(module, r)
            set == IF names = <<>> THEN [error |-> "", tags |-> old]
                   ELSE TagsAfter(old, StrArg(names[1]))
            logs == r.raised = "SyntaxError" \/ r.raised = "NameError"
        IN IF set.error # "" THEN Ends("error", set.error, old, "")
           ELSE Ends("fail", "", set.tags, IF logs THEN "traceback" ELSE "")

\* The case toplevel_check of a raw-check stage runs: the whole body, and the
\* result that unittest then notes for it.
toplevel_check ==
    /\ pc = "body"
    /\ current[2] = 2
    /\ LET t == current
           e == ToplevelCheck(RawCheckModule(t[1]), ToplevelSource(t[1]), FailTagsOf(t))
       IN
         /\ fail_tags' = [fail_tags EXCEPT ![t] = e.fail_tags]
         /\ message_log' = IF e.outcome = "pass" THEN MapPop(message_log, t)
                            ELSE IF e.msg # "" THEN MapSet(message_log, t, e.msg)
                            ELSE message_log
         /\ successes' = IF e.outcome = "pass" THEN successes \cup {t} ELSE successes
         /\ failures' = IF e.outcome = "fail" THEN failures \cup {t} ELSE failures
         /\ errors' = IF e.outcome = "error" THEN errors \cup {t} ELSE errors
         /\ exc_info' = IF e.outcome = "error" THEN MapSet(exc_info, t, e.error) ELSE exc_info
    /\ pc' = "next"
    /\ current' = NoTest
    /\ raised' = NoRaise
    /\ UNCHANGED <<buildVars, libVars, mainVars, calls, error_tag_rules, ownRules, ownTags,
                   output, kind, decl, queue, previousClass, classSetupFailed, run_tests,
                   skipped, ok_tags, derivedFile, answer, tearDowns, setUps, table>>

\* string.punctuation, as far as the tokens of the model go.
Punctuation == {"!", "%", "=", "(", ")"}

\* What question_exists finds: rawcheck.py looks for QUESTION_EXISTS = True in
\* the submission, rawcheck_as_is.py for a character of the question cell that
\* is neither white space nor punctuation; the extraction may raise.
QuestionExists(module) ==
    IF module = "rawcheck"
    THEN [raised |-> "", exists |-> submission.text = <<"QUESTION_EXISTS", "=", "True">>]
    ELSE LET found == SourceOfSpecial(submission.cells, "question_cell") IN
         [raised |-> found.raised,
          exists |-> \E k \in DOMAIN found.source : found.source[k] \notin Punctuation]

\* The case question_exists of a raw-check stage runs: the whole body, and the
\* result that unittest then notes for it.
question_exists ==
    /\ pc = "body"
    /\ current[2] = 1
    /\ LET t == current
           q == QuestionExists(RawCheckModule(t[1]))
       IN
         /\ IF q.raised = "" /\ q.exists
               THEN /\ ok_tags' = [ok_tags EXCEPT ![t] = TagsAfter(OkTagsOf(t), StrArg("QE")).tags]
                    /\ ownTags' = ownTags \cup {<<"ok_tags", t>>}
               ELSE UNCHANGED <<ok_tags, ownTags>>
         /\ successes' = IF q.raised = "" THEN successes \cup {t} ELSE successes
         /\ errors' = IF q.raised # "" THEN errors \cup {t} ELSE errors
         /\ exc_info' = IF q.raised # "" THEN MapSet(exc_info, t, q.raised) ELSE exc_info
         /\ message_log' = IF q.raised = "" THEN MapPop(message_log, t) ELSE message_log
    /\ pc' = "next"
    /\ current' = NoTest
    /\ raised' = NoRaise
    /\ UNCHANGED <<buildVars, libVars, mainVars, calls, error_tag_rules, ownRules, output,
                   kind, decl, queue, previousClass, classSetupFailed, run_tests, failures,
                   skipped, fail_tags, derivedFile, answer, tearDowns, setUps, table>>

\* The cells of a submitted notebook with the program p in its answer cell.
AnswerCell(p) ==
    [name |-> "answer_cell", deletable |-> FALSE, source |-> [kind |-> "str", parts |-> <<p>>]]
QuestionCell(q) ==
    [name |-> "question_cell", deletable |-> FALSE, source |-> [kind |-> "str", parts |-> <<q>>]]
Notebooks ==
    {<<>>} \cup {<<AnswerCell(p)>> : p \in Programs}
           \cup {<<AnswerCell(p), QuestionCell(q)>> : p \in Programs, q \in {<<>>, <<"why", "%">>}}
           \cup {<<AnswerCell(p), AnswerCell(p)>> : p \in Programs}

\* The module rawcheck.py or rawcheck_as_is.py is about to call unittest_main
\* on a submission: one stage in separate mode with question_exists (name 1,
\* no fail tag) and toplevel_check (name 2, fail tag 'TE').
RawCheckInit ==
    /\ pc = "declare"
    /\ \E style \in {"FORMATTED", "AS_IS"} :
          /\ kind = [s \in Stages |->
                       IF s = 1 THEN [style |-> style, mode |-> "separate", exec_answer |-> FALSE]
                       ELSE NoStage]
          /\ decl = [s \in Stages |->
                       IF s # 1 THEN <<>>
                       ELSE IF style = "FORMATTED"
                       THEN <<[name |-> 2, role |-> "check", fail_tag |-> "TE"],
                              [name |-> 1, role |-> "check", fail_tag |-> "None"]>>
                       ELSE <<[name |-> 1, role |-> "check", fail_tag |-> "None"],
                              [name |-> 2, role |-> "check", fail_tag |-> "TE"]>>]
          /\ submission \in (IF style = "FORMATTED"
                               THEN {[style |-> style, text |-> p, cells |-> <<>>] :
                                        p \in Programs}
                               ELSE {[style |-> style, text |-> <<>>, cells |-> c] :
                                        c \in Notebooks})
    /\ lpc = "off"
    /\ tags_given = <<>>
    /\ registry = NoRegistry
    /\ results = <<>>
    /\ extracted = <<>>
    /\ wrapped = "none"
    /\ out = <<>>
    /\ returned = <<>>
    /\ queue = <<>>
    /\ previousClass = 0
    /\ classSetupFailed = [s \in Stages |-> FALSE]
    /\ current = NoTest
    /\ run_tests = <<>>
    /\ successes = {}
    /\ failures = {}
    /\ errors = {}
    /\ skipped = {}
    /\ ok_tags = [t \in Tests \cup {ClassLevel} |-> <<>>]
    /\ fail_tags = [t \in Tests \cup {ClassLevel} |-> <<>>]
    /\ message_log = <<>>
    /\ derivedFile = FALSE
    /\ answer = [s \in Stages |-> FALSE]
    /\ tearDowns = [s \in Stages |-> 0]
    /\ setUps = [s \in Stages |-> "no"]
    /\ table = <<>>
    /\ calls = 1
    /\ NoRules
    /\ output = NoOutput
    /\ BuildOff
    /\ MainOff

RawCheckNext ==
    \/ unittest_main
    \/ tearDownPreviousClass
    \/ \E s \in Stages, readable \in BOOLEAN : setUpClass(s, readable, 1, "ok")
    \/ passOver
    \/ startTest
    \/ question_exists
    \/ toplevel_check
    \/ \E on_ipynb \in BOOLEAN : report(on_ipynb)

RawCheckSpec == RawCheckInit /\ [][RawCheckNext]_vars

\* ------------------------------------------------------------------ the build

\* Stage modules of one exercise.
MaxModules == 2
\* The largest score a stage declares.
MaxScore == 2

\* The names a stage (or the variable or file that holds an unnamed stage) has.
StageNames == {"a", "b"}
\* Scores are integers; a negative one is refused by build_formatted.
ScoreValues == {-1} \cup (0..MaxScore)

BuildInit ==
    /\ bpc = "load"
    /\ buildPath \in {"formatted", "as_is"}
    /\ test_modules = <<>>
    /\ setting = NoSetting
    /\ state = ""
    /\ path = <<>>
    /\ released = <<>>
    /\ pc = "off"
    /\ kind = [s \in Stages |-> NoStage]
    /\ decl = [s \in Stages |-> <<>>]
    /\ queue = <<>>
    /\ previousClass = 0
    /\ classSetupFailed = [s \in Stages |-> FALSE]
    /\ current = NoTest
    /\ run_tests = <<>>
    /\ successes = {}
    /\ failures = {}
    /\ errors = {}
    /\ skipped = {}
    /\ ok_tags = [t \in Tests \cup {ClassLevel} |-> <<>>]
    /\ fail_tags = [t \in Tests \cup {ClassLevel} |-> <<>>]
    /\ message_log = <<>>
    /\ derivedFile = FALSE
    /\ answer = [s \in Stages |-> FALSE]
    /\ tearDowns = [s \in Stages |-> 0]
    /\ setUps = [s \in Stages |-> "no"]
    /\ table = <<>>
    /\ calls = 0
    /\ NoRules
    /\ output = NoOutput
    /\ LibOff
    /\ MainOff

\* The stage a test module declares with teststage(name, score=, unsuccessful_score=),
\* after 'if stage.name is None: stage.name = <default>'.
Interpreted(name, default, score, unsuccessful_score) ==
    [name |-> IF name = "None" THEN default ELSE name,
     score |-> score, unsuccessful_score |-> unsuccessful_score]

\* build_formatted.interpret_testcode, for one more test-code cell (or builtin
\* module); the default name is the name of the variable that holds the stage.
interpret_testcode(name, variable, score, unsuccessful_score) ==
    /\ bpc = "load"
    /\ buildPath = "formatted"
    /\ Len(test_modules) < MaxModules
    /\ test_modules' = Append(test_modules,
                              Interpreted(name, variable, score, unsuccessful_score))
    /\ UNCHANGED <<bpc, buildPath, setting, state, path, released, pc, kind, decl, runVars, libVars, mainVars>>

\* build_as_is.interpret_test_module, for one more module file that exists; the
\* default name is the name of the module file.
interpret_test_module(name, modname, score, unsuccessful_score) ==
    /\ bpc = "load"
    /\ buildPath = "as_is"
    /\ Len(test_modules) < MaxModules
    /\ test_modules' = Append(test_modules,
                              Interpreted(name, modname, score, unsuccessful_score))
    /\ UNCHANGED <<bpc, buildPath, setting, state, path, released, pc, kind, decl, runVars, libVars, mainVars>>

\* A load that does not compare the stage names.
NamesDistinct_Unchecked(ms) == TRUE

\* len({stage.name for stage, _, _ in test_modules}) == len(test_modules)
NamesDistinct(ms) == Cardinality({ms[i].name : i \in DOMAIN ms}) = Len(ms)

\* The validation of score of interpret_testcode_cells.
ScoresValid(m) ==
    /\ m.score >= 0
    /\ m.unsuccessful_score >= 0
    /\ m.score >= m.unsuccessful_score

\* The assertions of build_formatted.interpret_testcode_cells.
FormattedAccepts(ms) ==
    /\ ms # <<>>
    /\ NamesDistinct(ms)
    /\ \A i \in DOMAIN ms : ScoresValid(ms[i])

\* The assertions of build_as_is.Exercise.load_test_modules.
AsIsAccepts(ms) ==
    /\ ms # <<>>
    /\ NamesDistinct(ms)

\* build_formatted.interpret_testcode_cells, after the cells are interpreted.
interpret_testcode_cells ==
    /\ bpc = "load"
    /\ buildPath = "formatted"
    /\ bpc' = IF FormattedAccepts(test_modules) THEN "loaded" ELSE "failed"
    /\ UNCHANGED <<buildPath, test_modules, setting, state, path, released,
                   pc, kind, decl, runVars, libVars, mainVars>>

\* build_as_is.Exercise.load_test_modules, after the modules are interpreted.
load_test_modules ==
    /\ bpc = "load"
    /\ buildPath = "as_is"
    /\ bpc' = IF AsIsAccepts(test_modules) THEN "loaded" ELSE "failed"
    /\ UNCHANGED <<buildPath, test_modules, setting, state, path, released,
                   pc, kind, decl, runVars, libVars, mainVars>>

\* Transitions whose 'otherwise' goes on to the next stage instead of ending.
TransitionsOf_OtherwiseGoesOn(ms, i) ==
    << << <<ms[i].name, "pass">>,
          <<IF i + 1 <= Len(ms) THEN ms[i + 1].name ELSE "$", ms[i].score>> >>,
       << <<ms[i].name, "otherwise">>,
          <<IF i + 1 <= Len(ms) THEN ms[i + 1].name ELSE "$",
            ms[i].unsuccessful_score>> >> >>

\* The two transitions generate_judge_setting appends for the i-th stage.
TransitionsOf(ms, i) ==
    << << <<ms[i].name, "pass">>,
          <<IF i + 1 <= Len(ms) THEN ms[i + 1].name ELSE "$", ms[i].score>> >>,
       << <<ms[i].name, "otherwise">>,
          <<"$", ms[i].unsuccessful_score>> >> >>

RECURSIVE Transitions(_, _)
Transitions(ms, n) ==
    IF n = 0 THEN <<>> ELSE Transitions(ms, n - 1) \o TransitionsOf(ms, n)

\* judge_setting.generate_judge_setting: the 'evaluation' block. 'states' is a
\* dictionary keyed by stage name.
JudgeSetting(ms) ==
    [initial_state |-> ms[1].name,
     states |-> {ms[i].name : i \in DOMAIN ms},
     transition_function |-> Transitions(ms, Len(ms))]

\* create_exercise_configuration: the setting of the loaded stages is generated.
generate_judge_setting ==
    /\ bpc = "loaded"
    /\ setting' = JudgeSetting(test_modules)
    /\ bpc' = "generated"
    /\ UNCHANGED <<buildPath, test_modules, state, path, released, pc, kind, decl, runVars, libVars, mainVars>>

\* The judge runtime starts in the initial state of the setting.
startWalk ==
    /\ bpc = "generated"
    /\ state' = setting.initial_state
    /\ bpc' = "walk"
    /\ UNCHANGED <<buildPath, test_modules, setting, path, released, pc, kind, decl, runVars, libVars, mainVars>>

\* The first transition of the table for (state, outcome).
Lookup(tf, st, outcome) ==
    LET i == CHOOSE j \in DOMAIN tf :
                 /\ tf[j][1] = <<st, outcome>>
                 /\ \A h \in 1..(j - 1) : tf[h][1] # <<st, outcome>>
    IN tf[i][2]

\* The judge runtime takes the transition of the current stage for its outcome.
walk(outcome) ==
    /\ bpc = "walk"
    /\ state # "$"
    /\ LET to == Lookup(setting.transition_function, state, outcome) IN
         /\ state' = to[1]
         /\ released' = Append(released, to[2])
    /\ path' = Append(path, <<state, outcome>>)
    /\ UNCHANGED <<bpc, buildPath, test_modules, setting, pc, kind, decl, runVars, libVars, mainVars>>

BuildNext ==
    \/ \E name \in StageNames \cup {"None"}, variable \in StageNames,
          score \in ScoreValues, unsuccessful_score \in ScoreValues :
            interpret_testcode(name, variable, score, unsuccessful_score)
    \/ \E name \in StageNames \cup {"None"}, modname \in StageNames,
          score \in ScoreValues, unsuccessful_score \in ScoreValues :
            interpret_test_module(name, modname, score, unsuccessful_score)
    \/ interpret_testcode_cells
    \/ load_test_modules
    \/ generate_judge_setting
    \/ startWalk
    \/ \E outcome \in {"pass", "otherwise"} : walk(outcome)

BuildSpec == BuildInit /\ [][BuildNext]_vars

\* ------------------------------------------------------------ a build run

\* The stages the masters of a build run declare.
MainStages == [name : StageNames, score : {1}, unsuccessful_score : {0, 2}]

\* The stage lists of a master: none, one or two stages.
StageLists == {<<>>} \cup {<<a>> : a \in MainStages}
                     \cup {<<a, b>> : a \in MainStages, b \in MainStages}

\* A master: whether the notebook itself is well-formed (build_formatted: the
\* field structure; build_as_is: the file name), and the stages of its test code.
Masters == [master_ok : BOOLEAN, modules : StageLists]

\* The command lines of the model. build_formatted always interprets the test
\* code; -c is absent ("None"), given with a file, or (build_as_is) given bare.
CommandLines ==
    [script : {"build_formatted"}, auto_eval : {TRUE}, configuration : {"None", "env.json"},
     forms : {TRUE}]
    \cup [script : {"build_as_is"}, auto_eval : BOOLEAN,
          configuration : {"None", "", "env.json"}, forms : BOOLEAN]

\* main is started on two masters.
MainInit ==
    /\ mpc = "load"
    /\ options \in CommandLines
    /\ exercises \in [{1, 2} -> Masters]
    /\ index = 0
    /\ written = {}
    /\ LibOff
    /\ BuildOff
    /\ pc = "off"
    /\ kind = [s \in Stages |-> NoStage]
    /\ decl = [s \in Stages |-> <<>>]
    /\ queue = <<>>
    /\ previousClass = 0
    /\ classSetupFailed = [s \in Stages |-> FALSE]
    /\ current = NoTest
    /\ run_tests = <<>>
    /\ successes = {}
    /\ failures = {}
    /\ errors = {}
    /\ skipped = {}
    /\ ok_tags = [t \in Tests \cup {ClassLevel} |-> <<>>]
    /\ fail_tags = [t \in Tests \cup {ClassLevel} |-> <<>>]
    /\ message_log = <<>>
    /\ derivedFile = FALSE
    /\ answer = [s \in Stages |-> FALSE]
    /\ tearDowns = [s \in Stages |-> 0]
    /\ setUps = [s \in Stages |-> "no"]
    /\ table = <<>>
    /\ calls = 0
    /\ NoRules
    /\ output = NoOutput

\* The steps of main in their order, for the options given; a step that the
\* options leave out is passed.
StepsOf(o) ==
    <<"load">>
    \o (IF o.script = "build_as_is" /\ o.auto_eval THEN <<"load_tests">> ELSE <<>>)
    \o <<"cleanup">>
    \o (IF o.forms THEN <<"forms">> ELSE <<>>)
    \o (IF o.configuration # "None" THEN <<"check", "configuration", "zip">> ELSE <<>>)
    \o <<"end">>

\* The step of main that comes after step p.
After(p) ==
    LET steps == StepsOf(options)
        i == CHOOSE k \in DOMAIN steps : steps[k] = p
    IN steps[i + 1]

\* What a step that goes through the exercises does to the position of main:
\* on to the next exercise, or on to the next step after the last one.
Advance ==
    IF index + 1 < Len(exercises)
    THEN /\ index' = index + 1
         /\ UNCHANGED mpc
    ELSE /\ index' = 0
         /\ mpc' = After(mpc)

Abort ==
    /\ mpc' = "aborted"
    /\ UNCHANGED index

\* load_sources, for one more master. build_formatted.load_exercise splits
\* the cells into fields and interprets the test code cells; build_as_is only
\* loads the notebook (Exercise.load).
load_sources ==
    /\ mpc = "load"
    /\ LET ex == exercises[index + 1] IN
         IF options.script = "build_formatted"
         THEN IF ex.master_ok /\ FormattedAccepts(ex.modules) THEN Advance ELSE Abort
         ELSE IF ex.master_ok THEN Advance ELSE Abort
    /\ UNCHANGED <<options, exercises, written, libVars, buildVars, pc, kind, decl, runVars>>

\* build_as_is.main with -ae: ex.load_test_modules for one more exercise.
load_tests ==
    /\ mpc = "load_tests"
    /\ IF AsIsAccepts(exercises[index + 1].modules) THEN Advance ELSE Abort
    /\ UNCHANGED <<options, exercises, written, libVars, buildVars, pc, kind, decl, runVars>>

\* cleanup_exercise_master / cleanup_exercise_master_metadata: the master of
\* one more exercise is saved again.
cleanup_exercise_master ==
    /\ mpc = "cleanup"
    /\ written' = written \cup {<<"master", index + 1>>}
    /\ Advance
    /\ UNCHANGED <<options, exercises, libVars, buildVars, pc, kind, decl, runVars>>

\* The form of one more exercise is generated.
create_form ==
    /\ mpc = "forms"
    /\ written' = written \cup {<<"form", index + 1>>}
    /\ Advance
    /\ UNCHANGED <<options, exercises, libVars, buildVars, pc, kind, decl, runVars>>

\* The start of the configuration step. build_as_is asserts that -c with a file
\* comes with -ae and that a bare -c comes without; then create_configuration
\* removes the old directory.
create_configuration ==
    /\ mpc = "check"
    /\ IF options.script = "build_as_is"
            /\ ((options.configuration = "env.json") # options.auto_eval)
          THEN Abort
          ELSE mpc' = After(mpc) /\ UNCHANGED index
    /\ UNCHANGED <<options, exercises, written, libVars, buildVars, pc, kind, decl, runVars>>

\* The stages main has loaded for exercise i: build_as_is loads none without -ae.
LoadedStages(i) ==
    IF options.auto_eval THEN exercises[i].modules ELSE <<>>

\* create_exercise_configuration for one more exercise: the notebook, then
\* setting.json and the stage modules. build_as_is returns after the notebook
\* when the exercise has no stage; build_formatted calls
\* generate_judge_setting, which fails on test_stages[0] when there is none.
create_exercise_configuration ==
    /\ mpc = "configuration"
    /\ IF LoadedStages(index + 1) = <<>>
       THEN /\ written' = written \cup {<<"notebook", index + 1>>}
            /\ IF options.script = "build_as_is" THEN Advance ELSE Abort
       ELSE /\ written' = written \cup {<<"notebook", index + 1>>, <<"setting", index + 1>>}
            /\ Advance
    /\ UNCHANGED <<options, exercises, libVars, buildVars, pc, kind, decl, runVars>>

\* The end of create_configuration: the zip file.
create_configuration_zip ==
    /\ mpc = "zip"
    /\ written' = written \cup {<<"zip", 0>>}
    /\ mpc' = After(mpc)
    /\ UNCHANGED <<index, options, exercises, libVars, buildVars, pc, kind, decl, runVars>>

MainNext ==
    \/ load_sources
    \/ load_tests
    \/ cleanup_exercise_master
    \/ create_form
    \/ create_configuration
    \/ create_exercise_configuration
    \/ create_configuration_zip

MainSpec == MainInit /\ [][MainNext]_vars

\* ------------------------------------------------------ claims on a build run

\* Exercise i breaks one of the invariants of an exercise: the structure of its
\* master, the distinctness of its stage names, or score >= unsuccessful_score
\* in every stage the build loads.
BreaksInvariant(i) ==
    \/ ~exercises[i].master_ok
    \/ /\ options.auto_eval
       /\ \/ ~NamesDistinct(exercises[i].modules)
          \/ \E k \in DOMAIN exercises[i].modules :
                exercises[i].modules[k].score < exercises[i].modules[k].unsuccessful_score

\* C11: when some exercise of a build run breaks an invariant (stage names not
\* distinct, unsuccessful_score above score, malformed master), the run never
\* gets past loading and nothing is written: no master, form, setting or zip.
C11_NoOutputWhenAnInvariantIsBroken ==
    (\E i \in DOMAIN exercises : BreaksInvariant(i))
        => /\ written = {}
           /\ mpc \in {"load", "load_tests", "aborted"}

\* ----------------------------------------------------- claims on the grading run

\* The rows of the reported table that belong to test t.
RowsOf(t) == {i \in DOMAIN table : run_tests[i] = t}

\* The names of the rows of stage s among the first i rows, in table order.
RECURSIVE RowNamesOf(_, _)
RowNamesOf(s, i) ==
    IF i = 0 THEN <<>>
    ELSE RowNamesOf(s, i - 1) \o
         (IF run_tests[i][1] = s THEN <<table[i].name>> ELSE <<>>)

\* The case names of stage s in the order in which the decorators were applied.
DeclarationOrder(s) == [i \in DOMAIN decl[s] |-> decl[s][i].name]

Started == Range(run_tests)

C2_UnknownRecordsAfterFailedSetUp ==
    pc = "done" =>
        /\ \A s \in Stages : classSetupFailed[s] =>
              \A n \in DeclaredNames(s) :
                  /\ Cardinality(RowsOf(<<s, n>>)) = 1
                  /\ \A i \in RowsOf(<<s, n>>) :
                        /\ table[i].status = "UNKNOWN"
                        /\ table[i].tags = <<>>
                        /\ table[i].err = ""
        /\ (\E s \in Stages : decl[s] # <<>>) => table # <<>>

C5_EveryExceptionIsAnErrorRecord ==
    /\ pc = "crashed" => \E s \in Stages : setUps[s] = "exit_import"
    /\ pc = "done" =>
          Cardinality({i \in DOMAIN table : table[i].status = "ERROR"})
              = Cardinality(errors)

\* C6, as stated: once the setUpClass of an exec_answer stage has begun to
\* acquire (it opened the derived submission.py), tearDownClass runs exactly
\* once in the run, and the derived file does not survive the run.
C6_ReleasedExactlyOnce ==
    pc = "done" =>
        /\ \A s \in Stages :
              (kind[s].exec_answer /\ setUps[s] \notin {"no", "failed_open"})
                  => tearDowns[s] = 1
        /\ ~derivedFile

\* ------------------------------------------------------------ claims on the build

Built == bpc \in {"loaded", "generated", "walk"}

\* C7, as stated: on both build paths the build fails if some stage has
\* unsuccessful_score > score, and succeeds if every stage (of a non-empty list
\* of distinctly named stages with non-negative scores) has
\* unsuccessful_score <= score.
C7_ScoreOrderEnforced ==
    /\ Built => \A i \in DOMAIN test_modules :
                    test_modules[i].unsuccessful_score <= test_modules[i].score
    /\ bpc = "failed" =>
          \/ test_modules = <<>>
          \/ ~NamesDistinct(test_modules)
          \/ \E i \in DOMAIN test_modules :
                \/ test_modules[i].unsuccessful_score > test_modules[i].score
                \/ test_modules[i].score < 0
                \/ test_modules[i].unsuccessful_score < 0

\* C8: the setting starts in the first stage and holds for the i-th stage
\* exactly the transitions (s_i, pass) -> (s_i+1 or '$', score_i) and
\* (s_i, otherwise) -> ('$', unsuccessful_score_i); so a walk enters the stages
\* in order, each only after the one before took its pass transition, and a
\* stage that does not pass ends the walk with its unsuccessful_score.
C8_TransitionsChainStages ==
    bpc \in {"generated", "walk"} =>
        LET ms == test_modules
            tf == setting.transition_function
            n == Len(ms)
        IN
        /\ setting.initial_state = ms[1].name
        /\ Len(tf) = 2 * n
        /\ \A i \in 1..n :
              /\ tf[2 * i - 1] = << <<ms[i].name, "pass">>,
                                    <<IF i < n THEN ms[i + 1].name ELSE "$", ms[i].score>> >>
              /\ tf[2 * i] = << <<ms[i].name, "otherwise">>,
                                <<"$", ms[i].unsuccessful_score>> >>
        /\ Len(path) <= n
        /\ Len(released) = Len(path)
        /\ \A k \in DOMAIN path :
              /\ path[k][1] = ms[k].name
              /\ k < Len(path) => path[k][2] = "pass"
              /\ released[k] = IF path[k][2] = "pass" THEN ms[k].score
                                ELSE ms[k].unsuccessful_score
        /\ bpc = "walk" =>
              state = IF path = <<>> THEN ms[1].name
                      ELSE IF path[Len(path)][2] = "pass" /\ Len(path) < n
                           THEN ms[Len(path) + 1].name
                           ELSE "$"

\* A walk over two stages: the first passed, the second did not, and the walk
\* ended with the second stage's unsuccessful_score.
C8_Witness ==
    /\ bpc = "walk"
    /\ Len(test_modules) = 2
    /\ path = << <<test_modules[1].name, "pass">>, <<test_modules[2].name, "otherwise">> >>
    /\ state = "$"
    /\ released = <<test_modules[1].score, test_modules[2].unsuccessful_score>>

\* Two of the stages have the same name.
SharedName(ms) == \E i \in DOMAIN ms, j \in DOMAIN ms : i # j /\ ms[i].name = ms[j].name

\* C10: loading fails whenever two stages have the same name (default names
\* included), so a setting that is generated has pairwise distinct stage names
\* and one entry in 'states' per stage.
C10_StageNamesDistinct ==
    /\ (bpc # "load" /\ SharedName(test_modules)) => bpc = "failed"
    /\ bpc \in {"generated", "walk"} =>
          /\ \A i \in DOMAIN test_modules, j \in DOMAIN test_modules :
                i # j => test_modules[i].name # test_modules[j].name
          /\ Cardinality(setting.states) = Len(test_modules)

\* A load that failed because two stages share a name although the scores of
\* both are in order.
C10_Witness ==
    /\ bpc = "failed"
    /\ Len(test_modules) = 2
    /\ test_modules[1].name = test_modules[2].name
    /\ \A i \in DOMAIN test_modules : ScoresValid(test_modules[i])

\* A stage is active from the end of a setUpClass that succeeded to its
\* tearDownClass.
Active(s) == setUps[s] = "ok" /\ tearDowns[s] = 0

\* C20, as stated: at most one stage is active at a time, and when the setup of
\* a stage has begun, every case of each stage before it has been recorded and
\* the teardown of that stage has completed, also when its setup had failed.
C20_OneStageActiveAtATime ==
    /\ Cardinality({s \in Stages : Active(s)}) <= 1
    /\ \A s \in Stages, n \in Stages :
          (s < n /\ decl[s] # <<>> /\ setUps[n] # "no") =>
              /\ \A c \in DeclaredNames(s) :
                    <<s, c>> \in successes \cup failures \cup errors \cup skipped
              /\ tearDowns[s] = 1
              /\ ~derivedFile

\* ------------------------------------------- claims on runs in one process

\* C14, as stated: when unittest_main has ended, the message log is empty.
C14_NoLeftoverMessages == pc = "done" => message_log = <<>>

\* C14, amended: when unittest_main has ended, the message log holds entries
\* only for cases that were started in this run and did not pass, each with a
\* message recorded in this run; the entry of a case that passed is gone.
C14_MessagesOfUnsuccessfulCasesOnly ==
    pc = "done" =>
        \A t \in DOMAIN message_log :
            /\ t \in Started
            /\ t \notin successes
            /\ message_log[t] = MessageIn(calls, t[2])

\* The second run has ended: a case that failed has left its message in the
\* log, and the other case passed.
C14_Witness ==
    /\ pc = "done"
    /\ calls = 0
    /\ \E t \in failures, u \in successes : t \in DOMAIN message_log /\ u \in Started

\* C15: a run starts with an empty message log (no case of the run has started
\* yet: the log is empty), and the msg of every record a run reports, in the
\* table, the JSON and the HTML details, is empty or a message recorded in
\* that same run, however many runs the process made before.
C15_NoMessageFromEarlierRun ==
    /\ (pc = "next" /\ run_tests = <<>>) => message_log = <<>>
    /\ pc = "done" =>
          /\ \A i \in DOMAIN table :
                table[i].msg \in {"", MessageIn(calls, run_tests[i][2])}
          /\ \A i \in DOMAIN output.json :
                output.json[i].msg \in {"", MessageIn(calls, run_tests[i][2])}
          /\ \A i \in DOMAIN output.details :
                output.details[i].msg \in {"", MessageIn(calls, output.details[i].name[2])}

\* The second run has ended: one case failed without a message and has an
\* empty msg, the other failed with the message it recorded in this run.
C15_Witness ==
    /\ pc = "done"
    /\ calls = 0
    /\ \E i \in DOMAIN table, j \in DOMAIN table :
          /\ table[i].status = "FAIL" /\ table[i].msg = ""
          /\ table[j].status \in {"FAIL", "ERROR"}
          /\ table[j].msg = MessageIn(0, run_tests[j][2])

\* The rules a case registered itself with set_error_tag.
OwnRules(t) == IF t \in ownRules THEN error_tag_rules[t] ELSE <<>>

\* The tags of a record as a function of the outcome of the case, the class of
\* its exception and the tags the case declared or set.
ExpectedTags(t) ==
    IF t \in successes THEN (IF CaseOf(t).role = "test" THEN <<"CO">> ELSE <<>>)
    ELSE IF t \in failures THEN
        (IF CaseOf(t).fail_tag = "None" THEN <<>> ELSE <<CaseOf(t).fail_tag>>)
    ELSE IF t \in errors THEN MatchingTags(OwnRules(t), exc_info[t])
    ELSE <<>>

\* C16: in every run of a process, the first and the later ones, the tags of
\* each record are the same function of the outcome of its case, the class of
\* the exception and the tags and rules that case declared or set, so two runs
\* in which the cases do the same give the same statuses and tags; nothing a
\* run or another case did is in them.
C16_TagsDependOnTheCaseOnly ==
    pc = "done" =>
        \A i \in DOMAIN table : table[i].tags = ExpectedTags(run_tests[i])

\* The second run has ended with an ERROR record that carries the tags of two
\* matching rules of its case and a PASS record.
C16_Witness ==
    /\ pc = "done"
    /\ calls = 0
    /\ \E i \in DOMAIN table, j \in DOMAIN table :
          /\ table[i].status = "ERROR" /\ Len(table[i].tags) = 2
          /\ table[j].status = "PASS" /\ table[j].tags = <<"CO">>

\* ------------------------------------------------ claims on the reported output

TagKeys == {"name", "description", "background_color", "font_color", "visible"}

\* C17: the JSON output has one object for each row of to_table, in the same
\* order, with exactly the keys name, status, tags, err, msg; the status is the
\* lower-case name of the row's status and each tag is the object of all five
\* fields of the row's tag.
C17_JsonRowsAreFullRecords ==
    (pc = "done" /\ ~output.on_ipynb) =>
        /\ Len(output.json) = Len(table)
        /\ \A i \in DOMAIN output.json :
            LET o == output.json[i] IN
            /\ DOMAIN o = {"name", "status", "tags", "err", "msg"}
            /\ o.name = table[i].name
            /\ o.err = table[i].err
            /\ o.msg = table[i].msg
            /\ o.status \in {"pass", "fail", "error", "unknown"}
            /\ o.status = "pass" <=> table[i].status = "PASS"
            /\ o.status = "fail" <=> table[i].status = "FAIL"
            /\ o.status = "error" <=> table[i].status = "ERROR"
            /\ o.status = "unknown" <=> table[i].status = "UNKNOWN"
            /\ Len(o.tags) = Len(table[i].tags)
            /\ \A k \in DOMAIN o.tags :
                /\ DOMAIN o.tags[k] = TagKeys
                /\ o.tags[k].name = table[i].tags[k]
                /\ o.tags[k] = PREDEFINED_TAGS[table[i].tags[k]]

\* A run printed JSON for a table with a tagged row and an UNKNOWN row.
C17_Witness ==
    /\ pc = "done"
    /\ ~output.on_ipynb
    /\ \E i \in DOMAIN output.json, j \in DOMAIN output.json :
          /\ output.json[i].tags # <<>>
          /\ output.json[j].status = "unknown"

\* The rows among the first i that are not PASS, in order.
RECURSIVE NotPassed(_, _)
NotPassed(rows, i) ==
    IF i = 0 THEN <<>>
    ELSE NotPassed(rows, i - 1) \o (IF rows[i].status # "PASS" THEN <<rows[i]>> ELSE <<>>)

\* C18: the summary table has one row for each record, in run order, whatever
\* the status; the details have one section for each record that is not PASS,
\* in run order, and none for a PASS record.
C18_RendererDropsNoRecord ==
    (pc = "done" /\ output.on_ipynb) =>
        /\ Len(output.summary) = Len(run_tests)
        /\ \A i \in DOMAIN output.summary :
            /\ output.summary[i].name = <<run_tests[i][1], run_tests[i][2]>>
            /\ output.summary[i].status = StatusLower(table[i].status)
            /\ output.summary[i].tags = table[i].tags
        /\ LET rest == NotPassed(table, Len(table)) IN
            /\ Len(output.details) = Len(rest)
            /\ \A k \in DOMAIN output.details :
                /\ output.details[k].name[2] = rest[k].name
                /\ output.details[k].status = StatusLower(rest[k].status)
                /\ output.details[k].status # "pass"

\* A run returned HTML for a PASS record and an UNKNOWN record: two summary
\* rows, one section.
C18_Witness ==
    /\ pc = "done"
    /\ output.on_ipynb
    /\ Len(output.summary) = 2
    /\ Len(output.details) = 1
    /\ output.details[1].status = "unknown"

\* ------------------------------------------------- claims on the library

\* C12, as stated: a registry is made only of tags that are pairwise distinct
\* by name (the construction from a sequence in which two tags share a name
\* fails with ValueError, so no registry exists then).
C12_RegistryNamesDistinct ==
    lpc = "registry" =>
        \A i \in DOMAIN registry.tuple, j \in DOMAIN registry.tuple :
            i # j => registry.tuple[i].name # registry.tuple[j].name

\* C13: on one registry, two lookups of the same name give the same result,
\* the same tag or KeyError both times; a membership test of a name never
\* raises, and it is true exactly if a lookup of that name gives a tag and
\* false exactly if the lookup raises KeyError.
C13_ContainsAgreesWithLookup ==
    \A i \in DOMAIN results, j \in DOMAIN results :
        /\ results[i].raised \in {"", "KeyError"}
        /\ (results[i].op = "contains") => results[i].raised = ""
        /\ (results[i].op = "getitem" /\ results[j].op = "getitem"
               /\ results[i].key = results[j].key) => results[i] = results[j]
        /\ (results[i].op = "contains" /\ results[j].op = "getitem"
               /\ results[i].key = results[j].key) =>
                  /\ results[i].found <=> results[j].raised = ""
                  /\ ~results[i].found <=> results[j].raised = "KeyError"

\* A registry of two tags was asked twice for a name it has and tested for
\* that name.
C13_Witness ==
    /\ lpc = "registry"
    /\ Len(registry.tuple) = 2
    /\ \E i \in DOMAIN results, j \in DOMAIN results, k \in DOMAIN results :
          /\ i < j
          /\ results[i].op = "getitem" /\ results[j].op = "getitem"
          /\ results[k].op = "contains"
          /\ results[i].key = "A" /\ results[j].key = "A" /\ results[k].key = "A"
          /\ results[i].raised = "" /\ results[k].found

\* The name of the special cell an extraction looks for.
SpecialName(fn) == IF fn = "answer" THEN "answer_cell" ELSE "question_cell"

\* The number of non-deletable cells of that name in the submitted notebook.
SpecialCount(fn) ==
    Cardinality({i \in DOMAIN submission.cells :
                    /\ submission.cells[i].name = SpecialName(fn)
                    /\ ~submission.cells[i].deletable})

\* C19, as stated: the extraction of the answer or question cell source from a
\* notebook raises whenever the notebook has no or more than one non-deletable
\* cell of the special name, and returns a source only when it has exactly one.
C19_ExtractionFailsUnlessUnique ==
    submission.style = "AS_IS" =>
        \A i \in DOMAIN extracted :
            /\ SpecialCount(extracted[i].fn) # 1 => extracted[i].raised # ""
            /\ extracted[i].raised = "" => SpecialCount(extracted[i].fn) = 1

\* C19, amended: extract_special_unique_cell raises KeyError for no such cell
\* and ValueError for more than one; extract_answer_cell_source and
\* extract_question_cell_source catch the KeyError and return the empty string
\* for no such cell, raise ValueError for more than one, and for exactly one
\* return its source (or fail on a source that is neither a string nor a list).
C19_ExtractionOfSpecialCell ==
    submission.style = "AS_IS" =>
        /\ \A name \in {"answer_cell", "question_cell"} :
            LET n == Cardinality({i \in DOMAIN submission.cells :
                                    /\ submission.cells[i].name = name
                                    /\ ~submission.cells[i].deletable})
                found == extract_special_unique_cell(submission.cells, name)
            IN /\ found.raised = "KeyError" <=> n = 0
               /\ found.raised = "ValueError" <=> n > 1
               /\ found.raised = "" <=> n = 1
        /\ \A i \in DOMAIN extracted :
            LET e == extracted[i]
                n == SpecialCount(e.fn)
            IN /\ n = 0 => (e.raised = "" /\ e.source = <<>>)
               /\ n > 1 => e.raised = "ValueError"
               /\ n = 1 =>
                    \E k \in DOMAIN submission.cells :
                        LET cell == submission.cells[k] IN
                        /\ cell.name = SpecialName(e.fn)
                        /\ ~cell.deletable
                        /\ IF cell.source.kind = "other"
                              THEN e.raised = "AttributeError"
                              ELSE e.raised = "" /\ e.source = Join(cell.source.parts)

\* The answer was extracted from a notebook whose only cell named answer_cell
\* is deletable: the empty source came back, nothing was raised.
C19_Witness ==
    /\ submission.style = "AS_IS"
    /\ \E k \in DOMAIN submission.cells :
          submission.cells[k].name = "answer_cell" /\ submission.cells[k].deletable
    /\ \E i \in DOMAIN extracted :
          /\ extracted[i].fn = "answer"
          /\ SpecialCount("answer") = 0
          /\ extracted[i].raised = ""
          /\ extracted[i].source = <<>>

\* The places of the rules of d that apply to an exception of class X.
Applying(d, X) == {k \in DOMAIN d : issubclass(X, d[k][1])}

\* C21: the record of a case that raised an exception of class X has status
\* ERROR, and its tags are the tags of all the rules (E, tag) of the case with X
\* a subclass of E, one for each such rule and in the order of the rules; the
\* ok-tags and fail-tags of the case are no part of it.
C21_ErrorRecord ==
    \A i \in DOMAIN to_table :
        (run_tests[i] \in errors /\ run_tests[i] \notin successes \cup failures) =>
            LET t == run_tests[i]
                d == OwnRules(t)
                places == SortedSeq(Applying(d, exc_info[t]))
            IN /\ to_table[i].status = "ERROR"
               /\ to_table[i].tags = [j \in DOMAIN places |-> d[places[j]][2]]

\* A case raised AttributeError under two rules that both apply, the one for
\* AttributeError registered before the one for Exception, and under a fail tag
\* of its declaration; its row has both tags in that order.
C21_Witness ==
    \E i \in DOMAIN to_table :
        /\ to_table[i].status = "ERROR"
        /\ exc_info[run_tests[i]] = "AttributeError"
        /\ OwnRules(run_tests[i]) = << <<"AttributeError", "ND">>, <<"Exception", "TE">> >>
        /\ to_table[i].tags = <<"ND", "TE">>
        /\ FailTagsOf(run_tests[i]) # <<>>

\* --------------------------------------------- claims on the bodies of the cases

\* The texts case n may record in the bodies of the model.
OwnTexts(n) == {MessageIn(c, n) : c \in {0, 1}}

\* C22: the record of a case that completed successfully has status PASS, the
\* ok-tags the case holds at the end, no error text and no message, whatever
\* message its body recorded before it completed.
C22_PassRecord ==
    pc = "done" =>
        \A i \in DOMAIN table :
            run_tests[i] \in successes =>
                /\ table[i].status = "PASS"
                /\ table[i].tags = OkTagsOf(run_tests[i])
                /\ table[i].err = ""
                /\ table[i].msg = ""
                /\ output.json[i].status = "pass"
                /\ output.json[i].msg = ""

\* A run has ended in which one case passed with the tag its body set and the
\* other failed with the message its body recorded.
C22_Witness ==
    /\ pc = "done"
    /\ \E i \in DOMAIN table :
          /\ table[i].status = "PASS"
          /\ table[i].tags = <<"QE">>
    /\ \E i \in DOMAIN table :
          /\ table[i].status = "FAIL"
          /\ table[i].msg # ""

\* The rows of the cases whose own assertion failed.
C23_FailRows ==
    pc = "done" =>
        \A i \in DOMAIN table :
            run_tests[i] \in failures =>
                /\ table[i].status = "FAIL"
                /\ table[i].tags = FailTagsOf(run_tests[i])
                /\ table[i].err = "failure"
                /\ table[i].msg = MessageOf(run_tests[i])
                /\ table[i].msg \in {""} \cup OwnTexts(run_tests[i][2])

\* During a run the log changes for the running case only, and a body that
\* records a text leaves that text for its case.
C23_OnlyTheRunningCaseRecords ==
    /\ \A t \in DOMAIN message_log :
          (t # current /\ pc \in {"next", "body"})
              => IF t \in DOMAIN message_log' THEN message_log'[t] = message_log[t]
                 ELSE FALSE
    /\ (pc = "body" /\ pc' = "body" /\ message_log' # message_log)
          => \E m \in OwnTexts(current[2]) : message_log' = MapSet(message_log, current, m)
    /\ (pc = "body" /\ pc' = "next" /\ current \in failures')
          => message_log' = message_log

\* C23: the record of a case whose own assertion failed has status FAIL, the
\* fail-tags the case holds, the failure as error text, and as message the last
\* text this case recorded ('' when none), never a text of another case.
C23_FailRecord == []C23_FailRows /\ [][C23_OnlyTheRunningCaseRecords]_vars

\* A run has ended in which both cases failed, each with a text of its own.
C23_Witness ==
    /\ pc = "done"
    /\ Len(table) = 2
    /\ \A i \in DOMAIN table :
          /\ table[i].status = "FAIL"
          /\ table[i].msg = MessageIn(i - 1, run_tests[i][2])

\* The entry of the wrapper: test_method presets [CO] and [IO]; check_method
\* presets the fail tag it was given and leaves the ok-tags empty.
C24_Entry ==
    (pc = "next" /\ pc' = "body") =>
        \A t \in Tests :
            t = current' =>
                IF CaseOf(t).role = "test"
                THEN /\ OkTagsOf(t)' = <<"CO">>
                     /\ FailTagsOf(t)' = <<"IO">>
                ELSE /\ OkTagsOf(t)' = <<>>
                     /\ FailTagsOf(t)' = (IF CaseOf(t).fail_tag = "None" THEN <<>>
                                           ELSE <<CaseOf(t).fail_tag>>)

\* In the body the tags change only by a setter, which replaces the list by
\* the one tag it was given (or by none); the end of the body keeps them.
C24_Body ==
    \A t \in Tests :
        t = current =>
            /\ (pc = "body" /\ pc' = "body" /\ OkTagsOf(t)' # OkTagsOf(t))
                  => OkTagsOf(t)' \in {<<>>, <<"QE">>}
            /\ (pc = "body" /\ pc' = "body" /\ FailTagsOf(t)' # FailTagsOf(t))
                  => FailTagsOf(t)' \in {<<>>, <<"ND">>}
            /\ (pc = "body" /\ pc' = "next")
                  => /\ OkTagsOf(t)' = OkTagsOf(t)
                     /\ FailTagsOf(t)' = FailTagsOf(t)

\* The rows carry the tags the cases hold when the run has ended.
C24_Rows ==
    pc = "done" =>
        \A i \in DOMAIN table :
            /\ table[i].status = "PASS" => table[i].tags = OkTagsOf(run_tests[i])
            /\ table[i].status = "FAIL" => table[i].tags = FailTagsOf(run_tests[i])

\* C24: a test_method case yields [CO] when it passes and [IO] when it fails; a
\* check_method case yields its fail_tag (none for None) when it fails and no
\* tag when it passes; a tag set in the body replaces the preset.
C24_PresetTags == []C24_Rows /\ [][C24_Entry /\ C24_Body]_vars

\* A run has ended with the check_method case failed under its preset tag and
\* the test_method case passed under the tag its body put in place of CO.
C24_Witness ==
    /\ pc = "done"
    /\ \E i \in DOMAIN table :
          /\ CaseOf(run_tests[i]).role = "check"
          /\ table[i].status = "FAIL"
          /\ table[i].tags = <<"TE">>
    /\ \E i \in DOMAIN table :
          /\ CaseOf(run_tests[i]).role = "test"
          /\ table[i].status = "PASS"
          /\ table[i].tags = <<"QE">>

\* C26: at every point of a run each case holds at most one ok-tag and at most
\* one fail-tag, and so does every PASS or FAIL row.
C26_AtMostOneTag ==
    /\ \A t \in Tests \cup {ClassLevel} :
          /\ Len(ok_tags[t]) <= 1
          /\ Len(fail_tags[t]) <= 1
    /\ \A i \in DOMAIN to_table :
          to_table[i].status \in {"PASS", "FAIL"} => Len(to_table[i].tags) <= 1

\* The body of the test_method case has put tags of its own in place of both
\* presets.
C26_Witness ==
    /\ pc = "body"
    /\ CaseOf(current).role = "test"
    /\ OkTagsOf(current) = <<"QE">>
    /\ FailTagsOf(current) = <<"ND">>

\* C28: the class-level ok_tags, fail_tags and error_tag_rules stay empty, so a
\* case that did not set a tag or a rule itself holds none, whatever the other
\* cases have set.
C28_ClassLevelStaysEmpty ==
    /\ ok_tags[ClassLevel] = <<>>
    /\ fail_tags[ClassLevel] = <<>>
    /\ error_tag_rules[ClassLevel] = <<>>
    /\ \A t \in Tests :
          /\ t \notin ownRules => RulesOf(t) = <<>>
          /\ <<"ok_tags", t>> \notin ownTags => OkTagsOf(t) = <<>>
          /\ <<"fail_tags", t>> \notin ownTags => FailTagsOf(t) = <<>>

\* The first case has ended with a tag and a rule of its own, and the body of
\* the second, which has no rule, is running.
C28_Witness ==
    /\ pc = "body"
    /\ current = <<1, 2>>
    /\ <<1, 1>> \in ownRules
    /\ error_tag_rules[<<1, 1>>] # <<>>
    /\ OkTagsOf(<<1, 1>>) = <<"QE">>
    /\ <<1, 2>> \notin ownRules

\* The value is none the setters accept: not None, not an EvaluationTag, not
\* the name of a predefined tag.
InvalidTag(v) == v.type \notin {"NoneType", "EvaluationTag"} /\ ~Predefined(v)

\* C29: a call of set_ok_tag or set_fail_tag with a value that is neither None,
\* an EvaluationTag nor the name of a predefined tag, and a call of set_error_tag
\* with a class outside Exception or an unknown tag name, raises ValueError.
C29_InvalidArgumentRaisesValueError ==
    /\ (raised.fn \in {"set_ok_tag", "set_fail_tag"} /\ InvalidTag(raised.tag))
          => raised.error = "ValueError"
    /\ raised.fn = "set_error_tag" => raised.error = "ValueError"

\* ------------------------------------------------ claims on the raw-check stage

\* The case toplevel_check of the stage, and whether its body has run.
ToplevelCase == <<1, 2>>
ToplevelChecked == ToplevelCase \in successes \cup failures \cup errors

\* What executing the top-level code of the submission raised, when
\* toplevel_check got as far as executing it.
Executed ==
    LET found == ToplevelSource(1) IN
    IF found.raised = "" /\ found.source # <<>> THEN exec(found.source)
    ELSE [raised |-> "", has_text |-> FALSE, text |-> <<>>]

\* C25: when the top-level code raises a SyntaxError, toplevel_check ends as a
\* FAIL with one tag: SCE if the offending text contains '!', else MCE if it
\* contains '%', else SE; the declared tag TE is not attached.
C25_SyntaxErrorTag ==
    (ToplevelChecked /\ Executed.raised = "SyntaxError") =>
        /\ Record(ToplevelCase).status = "FAIL"
        /\ Record(ToplevelCase).tags =
              (IF "!" \in Range(Executed.text) THEN <<"SCE">>
               ELSE IF "%" \in Range(Executed.text) THEN <<"MCE">>
               ELSE <<"SE">>)

\* C27: whatever Exception the top-level code raises (a call of open
\* included), toplevel_check ends as a FAIL with one fail tag, in both
\* raw-check stages; it never ends as an ERROR.
C27_EveryExceptionIsAFail ==
    (ToplevelChecked /\ Executed.raised # "") =>
        /\ Record(ToplevelCase).status = "FAIL"
        /\ Len(Record(ToplevelCase).tags) = 1

\* ------------------------------------------------ claims on the output wrappers

\* C30: every call of the wrapper made by print_return or stdout_return returns
\* the text printed during that call, and nothing of an earlier call.
C30_ReturnsOutputOfTheCall ==
    \A i \in DOMAIN returned :
        ~returned[i].raised => returned[i].value = returned[i].printed

====
